---- MODULE Spec2Model ----
(***************************************************************************)
(* Model of dot_conf_parser: the line-oriented tree builder                *)
(* (parser/core.rs), the schema compiler (parser/schema.rs), the schema    *)
(* reconciliation (parser/conf.rs) and the plain-conf rendering (show.rs). *)
(*                                                                         *)
(* A Rust `String` is a sequence of one-character strings, so that the     *)
(* tokenizer, the trimming and the integer conversion are computed         *)
(* character by character as the code computes them.  A BTreeMap is a      *)
(* function whose domain is the set of its keys; its iteration order is    *)
(* the lexicographic byte order of the keys (SortedKeys).                  *)
(***************************************************************************)
EXTENDS Integers, Sequences, FiniteSets, TLC

VARIABLES input, schema, idx, root, pc, result, query

vars == <<input, schema, idx, root, pc, result, query>>

(***************************************************************************)
(* Bounds                                                                  *)
(***************************************************************************)
MaxLines == 3

\* lines of a text whose values are integer texts
MaxIntLines == 2

\* lines of a text whose values are typed by every kind of leaf
MaxKindLines == 2

\* lines of a schema text
MaxSchemaLines == 3

\* lines of a configuration text whose tree is looked up next to schema trees
MaxTreeLines == 2

\* lines of a configuration text that is rendered
MaxShowLines == 3

\* lines of a text given to both parsers
MaxLegacyLines == 3

\* lines of a text that is reconciled
MaxReconcileLines == 3

\* lines of a text that exercises the tokenizer
MaxBuildLines == 3

(***************************************************************************)
(* Characters and strings                                                  *)
(***************************************************************************)
Digits == <<"0", "1", "2", "3", "4", "5", "6", "7", "8", "9">>

IsDigit(c) == \E d \in 1..10 : Digits[d] = c

DigitValue(c) == (CHOOSE d \in 1..10 : Digits[d] = c) - 1

\* byte value of a character (UTF-8 / ASCII), the order `String: Ord` uses
CharCode(c) ==
    CASE c = "\t" -> 9
      [] c = "\n" -> 10
      [] c = " " -> 32
      [] c = "#" -> 35
      [] c = "+" -> 43
      [] c = "," -> 44
      [] c = "-" -> 45
      [] c = "." -> 46
      [] IsDigit(c) -> 48 + DigitValue(c)
      [] c = ";" -> 59
      [] c = "=" -> 61
      [] c = ">" -> 62
      [] c = "T" -> 84
      [] c = "a" -> 97
      [] c = "b" -> 98
      [] c = "c" -> 99
      [] c = "e" -> 101
      [] c = "f" -> 102
      [] c = "l" -> 108
      [] c = "n" -> 110
      [] c = "r" -> 114
      [] c = "s" -> 115
      [] c = "t" -> 116
      [] c = "u" -> 117
      [] c = "x" -> 120
      [] c = "y" -> 121
      [] c = "z" -> 122

\* char::is_whitespace on the characters of the model
IsWhitespace(c) == c \in {" ", "\t"}

\* `a < b` for Rust strings: lexicographic on bytes, a proper prefix first
RECURSIVE StrLess(_, _)
StrLess(a, b) ==
    IF b = <<>> THEN FALSE
    ELSE IF a = <<>> THEN TRUE
    ELSE IF CharCode(Head(a)) # CharCode(Head(b))
         THEN CharCode(Head(a)) < CharCode(Head(b))
         ELSE StrLess(Tail(a), Tail(b))

RECURSIVE TrimStart(_)
TrimStart(s) ==
    IF s # <<>> /\ IsWhitespace(Head(s)) THEN TrimStart(Tail(s)) ELSE s

RECURSIVE TrimEnd(_)
TrimEnd(s) ==
    IF s # <<>> /\ IsWhitespace(s[Len(s)])
    THEN TrimEnd(SubSeq(s, 1, Len(s) - 1))
    ELSE s

\* str::trim
Trim(s) == TrimEnd(TrimStart(s))

\* does pattern `pat` occur in `s` starting at position i (1-based)
MatchesAt(s, pat, i) ==
    /\ i + Len(pat) - 1 <= Len(s)
    /\ \A j \in 1..Len(pat) : s[i + j - 1] = pat[j]

\* mutant: the position of the last occurrence (rfind)
Find_last(s, pat) ==
    IF \E i \in 1..Len(s) : MatchesAt(s, pat, i)
    THEN CHOOSE i \in 1..Len(s) :
            /\ MatchesAt(s, pat, i)
            /\ \A j \in (i + 1)..Len(s) : ~MatchesAt(s, pat, j)
    ELSE 0

\* str::find(&str): 1-based position of the first occurrence, 0 for None
Find(s, pat) ==
    IF \E i \in 1..Len(s) : MatchesAt(s, pat, i)
    THEN CHOOSE i \in 1..Len(s) :
            /\ MatchesAt(s, pat, i)
            /\ \A j \in 1..(i - 1) : ~MatchesAt(s, pat, j)
    ELSE 0

\* str::find([char; N]): 1-based position of the first listed char, 0 for None
FindAnyOf(s, chars) ==
    IF \E i \in 1..Len(s) : s[i] \in chars
    THEN CHOOSE i \in 1..Len(s) :
            /\ s[i] \in chars
            /\ \A j \in 1..(i - 1) : s[j] \notin chars
    ELSE 0

\* str::split(char): the pieces between the occurrences of `ch`
RECURSIVE Split(_, _)
Split(s, ch) ==
    LET at == FindAnyOf(s, {ch}) IN
    IF at = 0 THEN <<s>>
    ELSE <<SubSeq(s, 1, at - 1)>> \o Split(SubSeq(s, at + 1, Len(s)), ch)

\* [String]::join(".")
RECURSIVE Join(_)
Join(segments) ==
    IF segments = <<>> THEN <<>>
    ELSE IF Len(segments) = 1 THEN segments[1]
    ELSE segments[1] \o <<".">> \o Join(Tail(segments))

(***************************************************************************)
(* Results and errors                                                      *)
(***************************************************************************)
Ok(v) == [tag |-> "Ok", val |-> v]

Err(e) == [tag |-> "Err", err |-> e]

\* Ok(()) of a call that returns no value
NoError == [kind |-> "none"]

MissingDelimiter(line) == [kind |-> "MissingDelimiter", line |-> line]

EmptyKey(line) == [kind |-> "EmptyKey", line |-> line]

EmptyValue(line) == [kind |-> "EmptyValue", line |-> line]

InvalidKeySegment(segment, line) ==
    [kind |-> "InvalidKeySegment", segment |-> segment, line |-> line]

ConflictingTypes(key, line) ==
    [kind |-> "ConflictingTypes", key |-> key, line |-> line]

InvalidValue(key, value, ty, line) ==
    [kind |-> "InvalidValue", key |-> key, value |-> value, ty |-> ty,
     line |-> line]

UnknownKey(key, lines) == [kind |-> "UnknownKey", key |-> key, lines |-> lines]

(***************************************************************************)
(* Tree nodes                                                              *)
(***************************************************************************)
Scalar(payload) == [tag |-> "Scalar", payload |-> payload]

Map(children) == [tag |-> "Map", children |-> children]

EmptyMap == [k \in {} |-> {}]

\* BTreeMap::insert
MapPut(m, k, v) == [s \in (DOMAIN m) \cup {k} |-> IF s = k THEN v ELSE m[s]]

\* the keys of a BTreeMap in iteration order
RECURSIVE SortedSeq(_)
SortedSeq(keys) ==
    IF keys = {} THEN <<>>
    ELSE LET least == CHOOSE k \in keys :
                          \A o \in keys : o = k \/ StrLess(k, o)
         IN <<least>> \o SortedSeq(keys \ {least})

SortedKeys(m) == SortedSeq(DOMAIN m)

(***************************************************************************)
(* parser/core.rs: tokenizer, key path resolver, value normalisation       *)
(***************************************************************************)
\* <SingleValue as Valuable>::sep
SepConf == <<"=">>

\* <SingleValueDiscriminants as Valuable>::sep
SepSchema == <<"-", ">">>

\* mutant: the error carries the 0-based index of the line
extract_key_value_zero_based(sep, s, line_no) ==
    LET eq_index == Find(s, sep) IN
    IF eq_index # 0
    THEN Ok([key_part |-> Trim(SubSeq(s, 1, eq_index - 1)),
             value_part |-> SubSeq(s, eq_index + Len(sep), Len(s))])
    ELSE Err(MissingDelimiter(line_no - 1))

\* Valuable::extract_key_value
extract_key_value(sep, s, line_no) ==
    LET eq_index == Find(s, sep) IN
    IF eq_index # 0
    THEN Ok([key_part |-> Trim(SubSeq(s, 1, eq_index - 1)),
             value_part |-> SubSeq(s, eq_index + Len(sep), Len(s))])
    ELSE Err(MissingDelimiter(line_no))

\* mutant: the segments are taken as they stand between the dots
TrimAll_none(pieces) == pieces

\* the `.map(|segment| segment.trim())` of parse_key
TrimAll(pieces) == [i \in 1..Len(pieces) |-> Trim(pieces[i])]

parse_key(key_part, line_no) ==
    IF Trim(key_part) = <<>> THEN Err(EmptyKey(line_no))
    ELSE LET segments == TrimAll(Split(Trim(key_part), "."))
         IN IF \E i \in 1..Len(segments) : segments[i] = <<>>
            THEN LET first == CHOOSE i \in 1..Len(segments) :
                                 /\ segments[i] = <<>>
                                 /\ \A j \in 1..(i - 1) : segments[j] # <<>>
                 IN Err(InvalidKeySegment(segments[first], line_no))
            ELSE Ok(segments)

\* mutant: only `#` starts an inline comment
strip_inline_comment_hash_only(s) ==
    LET cmt_index == FindAnyOf(s, {"#"}) IN
    IF cmt_index # 0 THEN SubSeq(s, 1, cmt_index - 1) ELSE s

\* mutant: the inline comment is kept in the value
strip_inline_comment_kept(s) == s

strip_inline_comment(s) ==
    LET cmt_index == FindAnyOf(s, {"#", ";"}) IN
    IF cmt_index # 0 THEN SubSeq(s, 1, cmt_index - 1) ELSE s

\* the normalising loop of parse_value over trimmed.chars()
RECURSIVE Normalize(_, _, _)
RECURSIVE Normalize_keeps_char(_, _, _)
\* mutant: the first whitespace character of a run is pushed as it is
Normalize_keeps_char(rest, normalized, last_was_space) ==
    IF rest = <<>> THEN normalized
    ELSE IF IsWhitespace(Head(rest))
         THEN IF normalized # <<>> /\ ~last_was_space
              THEN Normalize_keeps_char(Tail(rest),
                                        Append(normalized, Head(rest)), TRUE)
              ELSE Normalize_keeps_char(Tail(rest), normalized,
                                        last_was_space)
         ELSE Normalize_keeps_char(Tail(rest), Append(normalized, Head(rest)),
                                   FALSE)

Normalize(rest, normalized, last_was_space) ==
    IF rest = <<>> THEN normalized
    ELSE IF IsWhitespace(Head(rest))
         THEN IF normalized # <<>> /\ ~last_was_space
              THEN Normalize(Tail(rest), Append(normalized, " "), TRUE)
              ELSE Normalize(Tail(rest), normalized, last_was_space)
         ELSE Normalize(Tail(rest), Append(normalized, Head(rest)), FALSE)

parse_value(value_part, line_no) ==
    LET trimmed == Trim(strip_inline_comment(value_part)) IN
    IF trimmed = <<>> THEN Err(EmptyValue(line_no))
    ELSE Ok(Normalize(trimmed, <<>>, FALSE))

(***************************************************************************)
(* parser/core.rs: the tree builder                                        *)
(***************************************************************************)
\* mutant: an overwritten leaf keeps its first value
Overwrite_keeps_value(existing, value, line_no) ==
    Scalar(<<existing.payload[1], line_no>>)

\* mutant: an overwritten leaf keeps the line of its first assignment
Overwrite_keeps_line(existing, value, line_no) ==
    Scalar(<<value, existing.payload[2]>>)

\* the Entry::Occupied / TreeValue::Scalar arm of insert_value:
\* existing.0 = value; existing.1 = line_no
Overwrite(existing, value, line_no) == Scalar(<<value, line_no>>)

\* mutant: the conflict is reported for the whole key of the line
ConflictAt_whole_key(segments, i, line_no) ==
    ConflictingTypes(Join(segments), line_no)

\* ParseError::ConflictingTypes { key: segments[..=idx].join("."), line }
ConflictAt(segments, i, line_no) ==
    ConflictingTypes(Join(SubSeq(segments, 1, i)), line_no)

\* mutant: the last segment replaces whatever the slot holds
OccupiedByScalar_any(existing) == TRUE

\* Entry::Occupied at the last segment: `match entry.get_mut()` takes the
\* TreeValue::Scalar arm
OccupiedByScalar(existing) == existing.tag = "Scalar"

\* One pass of the loop of insert_value at segment i of `current`.  The
\* maps are mutated in place, so the map is returned even when the
\* insertion fails (`err` is then the error, otherwise NoError).
RECURSIVE InsertAt(_, _, _, _, _)
RECURSIVE InsertAt_replacing(_, _, _, _, _)
RECURSIVE InsertAt_emptying(_, _, _, _, _)
\* mutant: the map that occupies the slot of the last segment is replaced by
\* the scalar before the conflict is reported
InsertAt_replacing(current, segments, i, value, line_no) ==
    LET segment == segments[i]
        conflict == ConflictAt(segments, i, line_no)
    IN
    IF i = Len(segments)
    THEN IF segment \notin DOMAIN current
         THEN [map |-> MapPut(current, segment, Scalar(<<value, line_no>>)),
               err |-> NoError]
         ELSE IF OccupiedByScalar(current[segment])
              THEN [map |-> MapPut(current, segment,
                                   Overwrite(current[segment], value,
                                             line_no)),
                    err |-> NoError]
              ELSE [map |-> MapPut(current, segment,
                                   Scalar(<<value, line_no>>)),
                    err |-> conflict]
    ELSE LET ensured == IF segment \notin DOMAIN current
                        THEN MapPut(current, segment, Map(EmptyMap))
                        ELSE current
         IN IF ensured[segment].tag = "Map"
            THEN LET below == InsertAt_replacing(ensured[segment].children,
                                                 segments, i + 1, value,
                                                 line_no)
                 IN [map |-> MapPut(ensured, segment, Map(below.map)),
                     err |-> below.err]
            ELSE [map |-> ensured, err |-> conflict]

\* mutant: the scalar met before the last segment is replaced by an empty
\* map before the conflict is reported
InsertAt_emptying(current, segments, i, value, line_no) ==
    LET segment == segments[i]
        conflict == ConflictAt(segments, i, line_no)
    IN
    IF i = Len(segments)
    THEN IF segment \notin DOMAIN current
         THEN [map |-> MapPut(current, segment, Scalar(<<value, line_no>>)),
               err |-> NoError]
         ELSE IF OccupiedByScalar(current[segment])
              THEN [map |-> MapPut(current, segment,
                                   Overwrite(current[segment], value,
                                             line_no)),
                    err |-> NoError]
              ELSE [map |-> current, err |-> conflict]
    ELSE LET ensured == IF segment \notin DOMAIN current
                        THEN MapPut(current, segment, Map(EmptyMap))
                        ELSE current
         IN IF ensured[segment].tag = "Map"
            THEN LET below == InsertAt_emptying(ensured[segment].children,
                                                segments, i + 1, value,
                                                line_no)
                 IN [map |-> MapPut(ensured, segment, Map(below.map)),
                     err |-> below.err]
            ELSE [map |-> MapPut(ensured, segment, Map(EmptyMap)),
                  err |-> conflict]

InsertAt(current, segments, i, value, line_no) ==
    LET segment == segments[i]
        conflict == ConflictAt(segments, i, line_no)
    IN
    IF i = Len(segments)
    THEN IF segment \notin DOMAIN current
         THEN [map |-> MapPut(current, segment, Scalar(<<value, line_no>>)),
               err |-> NoError]
         ELSE IF OccupiedByScalar(current[segment])
              THEN [map |-> MapPut(current, segment,
                                   Overwrite(current[segment], value,
                                             line_no)),
                    err |-> NoError]
              ELSE [map |-> current, err |-> conflict]
    ELSE LET ensured == IF segment \notin DOMAIN current
                        THEN MapPut(current, segment, Map(EmptyMap))
                        ELSE current
         IN IF ensured[segment].tag = "Map"
            THEN LET below == InsertAt(ensured[segment].children, segments,
                                       i + 1, value, line_no)
                 IN [map |-> MapPut(ensured, segment, Map(below.map)),
                     err |-> below.err]
            ELSE [map |-> ensured, err |-> conflict]

insert_value(tree, segments, value, line_no) ==
    InsertAt(tree, segments, 1, value, line_no)

\* TreeValue::get_lines_of_key
RECURSIVE get_lines_of_key(_)
RECURSIVE LinesOfChildren(_, _)
\* mutant: only the first child of a map contributes its lines
LinesOfChildren_first_only(children, keys) ==
    IF keys = <<>> THEN <<>>
    ELSE get_lines_of_key(children[Head(keys)])

get_lines_of_key(node) ==
    IF node.tag = "Scalar" THEN <<node.payload[2]>>
    ELSE LinesOfChildren(node.children, SortedKeys(node.children))

LinesOfChildren(children, keys) ==
    IF keys = <<>> THEN <<>>
    ELSE get_lines_of_key(children[Head(keys)])
            \o LinesOfChildren(children, Tail(keys))

\* the body of the loop of str_to_mir for a line that is not skipped:
\* tokenize, resolve the key, normalise the value, insert
LineStep(sep, tree, trimmed, line_no) ==
    LET kv == extract_key_value(sep, trimmed, line_no) IN
    IF kv.tag = "Err" THEN [map |-> tree, err |-> kv.err]
    ELSE LET segments == parse_key(kv.val.key_part, line_no) IN
         IF segments.tag = "Err" THEN [map |-> tree, err |-> segments.err]
         ELSE LET value == parse_value(kv.val.value_part, line_no) IN
              IF value.tag = "Err" THEN [map |-> tree, err |-> value.err]
              ELSE insert_value(tree, segments.val, value.val, line_no)

\* mutant: only `#` starts a comment line
IsSkipped_hash_only(raw_line) ==
    LET trimmed == Trim(raw_line) IN
    IF trimmed = <<>> THEN TRUE
    ELSE LET first_char == trimmed[1] IN
         first_char = "#"

\* the two `continue`s of str_to_mir: blank lines and comment lines
IsSkipped(raw_line) ==
    LET trimmed == Trim(raw_line) IN
    IF trimmed = <<>> THEN TRUE
    ELSE LET first_char == trimmed[1] IN
         first_char = "#" \/ first_char = ";"

(***************************************************************************)
(* lib.rs: the parser of the crate root                                    *)
(***************************************************************************)
\* parse_key of lib.rs
lib_parse_key(key_part, line_no) ==
    IF Trim(key_part) = <<>> THEN Err(EmptyKey(line_no))
    ELSE LET segments == [i \in 1..Len(Split(Trim(key_part), ".")) |->
                             Trim(Split(Trim(key_part), ".")[i])]
         IN IF \E i \in 1..Len(segments) : segments[i] = <<>>
            THEN LET bad == CHOOSE i \in 1..Len(segments) :
                               /\ segments[i] = <<>>
                               /\ \A j \in 1..(i - 1) : segments[j] # <<>>
                 IN Err(InvalidKeySegment(segments[bad], line_no))
            ELSE Ok(segments)

\* strip_inline_comment of lib.rs
lib_strip_inline_comment(s) ==
    LET cmt_index == FindAnyOf(s, {"#", ";"}) IN
    IF cmt_index # 0 THEN SubSeq(s, 1, cmt_index - 1) ELSE s

\* mutant: the value is normalised as parser/core.rs normalises it
lib_parse_value_normalizing(value_part, line_no) ==
    LET trimmed == Trim(lib_strip_inline_comment(value_part)) IN
    IF trimmed = <<>> THEN Err(EmptyValue(line_no))
    ELSE Ok(Normalize(trimmed, <<>>, FALSE))

\* parse_value of lib.rs: Ok(trimmed.to_string())
lib_parse_value(value_part, line_no) ==
    LET trimmed == Trim(lib_strip_inline_comment(value_part)) IN
    IF trimmed = <<>> THEN Err(EmptyValue(line_no))
    ELSE Ok(trimmed)

\* One pass of the loop of insert_value of lib.rs at segment i of
\* `current`; a leaf is ConfValue::Scalar(String)
RECURSIVE LibInsertAt(_, _, _, _, _)
LibInsertAt(current, segments, i, value, line_no) ==
    LET segment == segments[i]
        conflict == ConflictingTypes(Join(SubSeq(segments, 1, i)), line_no)
    IN
    IF i = Len(segments)
    THEN IF segment \notin DOMAIN current
         THEN [map |-> MapPut(current, segment, Scalar(value)),
               err |-> NoError]
         ELSE IF current[segment].tag = "Scalar"
              THEN [map |-> MapPut(current, segment, Scalar(value)),
                    err |-> NoError]
              ELSE [map |-> current, err |-> conflict]
    ELSE LET ensured == IF segment \notin DOMAIN current
                        THEN MapPut(current, segment, Map(EmptyMap))
                        ELSE current
         IN IF ensured[segment].tag = "Map"
            THEN LET below == LibInsertAt(ensured[segment].children,
                                          segments, i + 1, value, line_no)
                 IN [map |-> MapPut(ensured, segment, Map(below.map)),
                     err |-> below.err]
            ELSE [map |-> ensured, err |-> conflict]

lib_insert_value(tree, segments, value, line_no) ==
    LibInsertAt(tree, segments, 1, value, line_no)

\* the body of the loop of parse_str of lib.rs for a line that is not
\* skipped: the raw line is cut at its first `=`
LibLineStep(tree, raw_line, line_no) ==
    LET eq_index == Find(raw_line, <<"=">>) IN
    IF eq_index = 0 THEN [map |-> tree, err |-> MissingDelimiter(line_no)]
    ELSE LET key_part == TrimEnd(SubSeq(raw_line, 1, eq_index - 1))
             value_part == TrimStart(SubSeq(raw_line, eq_index + 1,
                                            Len(raw_line)))
             segments == lib_parse_key(key_part, line_no)
         IN IF segments.tag = "Err" THEN [map |-> tree, err |-> segments.err]
            ELSE LET value == lib_parse_value(value_part, line_no) IN
                 IF value.tag = "Err" THEN [map |-> tree, err |-> value.err]
                 ELSE lib_insert_value(tree, segments.val, value.val, line_no)

\* the loop of parse_str of lib.rs from line line_no on
RECURSIVE LibLoop(_, _, _)
LibLoop(tree, lines, line_no) ==
    IF line_no > Len(lines) THEN Ok(tree)
    ELSE LET raw_line == lines[line_no]
             trimmed == Trim(raw_line)
         IN IF trimmed = <<>> THEN LibLoop(tree, lines, line_no + 1)
            ELSE IF trimmed[1] = "#" \/ trimmed[1] = ";"
            THEN LibLoop(tree, lines, line_no + 1)
            ELSE LET step == LibLineStep(tree, raw_line, line_no) IN
                 IF step.err = NoError
                 THEN LibLoop(step.map, lines, line_no + 1)
                 ELSE Err(step.err)

\* parse_str of lib.rs
lib_parse_str(lines) == LibLoop(EmptyMap, lines, 1)

(***************************************************************************)
(* parser/conf.rs: typed values and conversions                            *)
(***************************************************************************)
None == [some |-> FALSE]

Some(v) == [some |-> TRUE, v |-> v]

\* a `todo!()` was reached: the call does not return
Panic(at) == [tag |-> "Panic", at |-> at]

\* Value::Single / Value::Collection
Single(v) == [tag |-> "Single", v |-> v]

Collection(items) == [tag |-> "Collection", items |-> items]

\* SingleValue::String / Bool / Integer
StringValue(s) == [tag |-> "String", s |-> s]

BoolValue(b) == [tag |-> "Bool", b |-> b]

IntegerValue(i) == [tag |-> "Integer", i |-> i]

I32Max == 2147483647

I32Min == -I32Max - 1

\* str::parse::<i32>: an optional sign, then at least one decimal digit,
\* accumulated with checked_mul / checked_add (checked_sub when negative)
RECURSIVE AccumulateI32(_, _, _)
RECURSIVE AccumulateI32_symmetric(_, _, _)
\* mutant: the negative range is taken to end at -i32::MAX
AccumulateI32_symmetric(digits, acc, is_positive) ==
    IF digits = <<>> THEN Some(acc)
    ELSE IF ~IsDigit(Head(digits)) THEN None
    ELSE LET d == DigitValue(Head(digits)) IN
         IF is_positive
         THEN IF acc > I32Max \div 10 \/ acc * 10 > I32Max - d THEN None
              ELSE AccumulateI32_symmetric(Tail(digits), acc * 10 + d,
                                           is_positive)
         ELSE IF acc < -(I32Max \div 10) \/ acc * 10 < -I32Max + d THEN None
              ELSE AccumulateI32_symmetric(Tail(digits), acc * 10 - d,
                                           is_positive)

AccumulateI32(digits, acc, is_positive) ==
    IF digits = <<>> THEN Some(acc)
    ELSE IF ~IsDigit(Head(digits)) THEN None
    ELSE LET d == DigitValue(Head(digits)) IN
         IF is_positive
         THEN IF acc > I32Max \div 10 \/ acc * 10 > I32Max - d THEN None
              ELSE AccumulateI32(Tail(digits), acc * 10 + d, is_positive)
         ELSE IF acc < -(I32Max \div 10) \/ acc * 10 < I32Min + d THEN None
              ELSE AccumulateI32(Tail(digits), acc * 10 - d, is_positive)

ParseI32(src) ==
    IF src = <<>> THEN None
    ELSE IF Head(src) \in {"+", "-"} /\ Len(src) = 1 THEN None
    ELSE IF Head(src) = "+" THEN AccumulateI32(Tail(src), 0, TRUE)
    ELSE IF Head(src) = "-" THEN AccumulateI32(Tail(src), 0, FALSE)
    ELSE AccumulateI32(src, 0, TRUE)

\* mutant: a text that does not parse becomes 0 (unwrap_or_default)
parse_str_as_i32_lenient(key, value, line) ==
    LET parsed == ParseI32(value) IN
    IF parsed.some THEN Ok(parsed.v) ELSE Ok(0)

parse_str_as_i32(key, value, line) ==
    LET parsed == ParseI32(value) IN
    IF parsed.some THEN Ok(parsed.v)
    ELSE Err(InvalidValue(key, value, "Integer", line))

\* mutant: `1` counts as true as well
into_payload_truthy(kind, key, value, line) ==
    CASE kind = "String" -> Ok(StringValue(value))
      [] kind = "Bool" ->
            Ok(BoolValue(value \in {<<"t", "r", "u", "e">>, <<"1">>}))
      [] kind = "Integer" ->
            LET n == parse_str_as_i32(key, value, line) IN
            IF n.tag = "Ok" THEN Ok(IntegerValue(n.val)) ELSE n

\* SingleValueDiscriminants::into_payload
into_payload(kind, key, value, line) ==
    CASE kind = "String" -> Ok(StringValue(value))
      [] kind = "Bool" -> Ok(BoolValue(value = <<"t", "r", "u", "e">>))
      [] kind = "Integer" ->
            LET n == parse_str_as_i32(key, value, line) IN
            IF n.tag = "Ok" THEN Ok(IntegerValue(n.val)) ELSE n

\* items.iter().map(into_payload).try_collect(): stops at the first Err
RECURSIVE TryCollect(_, _, _, _, _)
RECURSIVE TryCollect_split(_, _, _, _, _)
\* mutant: the value is split at its commas, one piece per declared kind
TryCollect_split(items, key, value, line, collected) ==
    IF items = <<>> THEN Ok(collected)
    ELSE LET pieces == Split(value, ",")
             nth == Len(collected) + 1
             piece == IF nth <= Len(pieces) THEN pieces[nth] ELSE value
             one == into_payload(Head(items), key, piece, line)
         IN IF one.tag = "Ok"
            THEN TryCollect_split(Tail(items), key, value, line,
                                  Append(collected, one.val))
            ELSE one

TryCollect(items, key, value, line, collected) ==
    IF items = <<>> THEN Ok(collected)
    ELSE LET one == into_payload(Head(items), key, value, line) IN
         IF one.tag = "Ok"
         THEN TryCollect(Tail(items), key, value, line,
                         Append(collected, one.val))
         ELSE one

\* mutant: a collection is filled with its first kind only
inject_payload_first_kind(key, schema_value, mir_value) ==
    IF mir_value.tag # "Scalar" THEN Panic("inject_payload")
    ELSE LET value == mir_value.payload[1]
             line == mir_value.payload[2]
             kind == IF schema_value.tag = "Single" THEN schema_value.v
                     ELSE Head(schema_value.items)
             one == into_payload(kind, key, value, line)
         IN IF one.tag = "Ok" THEN Ok(Scalar(Single(one.val))) ELSE one

inject_payload(key, schema_value, mir_value) ==
    IF mir_value.tag # "Scalar" THEN Panic("inject_payload")
    ELSE LET value == mir_value.payload[1]
             line == mir_value.payload[2]
         IN IF schema_value.tag = "Single"
            THEN LET one == into_payload(schema_value.v, key, value, line)
                 IN IF one.tag = "Ok" THEN Ok(Scalar(Single(one.val)))
                    ELSE one
            ELSE LET all == TryCollect(schema_value.items, key, value, line,
                                       <<>>)
                 IN IF all.tag = "Ok" THEN Ok(Scalar(Collection(all.val)))
                    ELSE all

(***************************************************************************)
(* parser/conf.rs, parser/schema.rs: lookup by dotted path                 *)
(***************************************************************************)
\* the `for segment in segments` descent shared by both `get`s
RECURSIVE Descend(_, _)
RECURSIVE Descend_through_scalar(_, _)
\* mutant: a scalar met before the last segment is returned
Descend_through_scalar(current, segments) ==
    IF segments = <<>> THEN Some(current)
    ELSE IF current.tag = "Map"
         THEN IF Head(segments) \in DOMAIN current.children
              THEN Descend_through_scalar(current.children[Head(segments)],
                                          Tail(segments))
              ELSE None
         ELSE Some(current)

Descend(current, segments) ==
    IF segments = <<>> THEN Some(current)
    ELSE IF current.tag = "Map"
         THEN IF Head(segments) \in DOMAIN current.children
              THEN Descend(current.children[Head(segments)], Tail(segments))
              ELSE None
         ELSE None

\* ConfMap::get
ConfMapGet(map, key) ==
    IF key \in DOMAIN map THEN Some(map[key])
    ELSE LET segments == Split(key, ".") IN
         IF segments[1] \in DOMAIN map
         THEN Descend(map[segments[1]], Tail(segments))
         ELSE None

\* SchemaMap::get
SchemaMapGet(map, key) ==
    IF key \in DOMAIN map THEN Some(map[key])
    ELSE LET segments == Split(key, ".") IN
         IF segments[1] \in DOMAIN map
         THEN Descend(map[segments[1]], Tail(segments))
         ELSE None

(***************************************************************************)
(* parser/conf.rs: reconciliation against the schema                       *)
(***************************************************************************)
\* mutant: the path of the unmatched key is reported as it is
format_unknown_key_path_bare(path, current) == path

RECURSIVE format_unknown_key_path(_, _)
format_unknown_key_path(path, current) ==
    IF current.tag = "Map" /\ DOMAIN current.children # {}
    THEN LET child_key == Head(SortedKeys(current.children)) IN
         format_unknown_key_path(
            IF path # <<>> THEN path \o <<".">> \o child_key ELSE child_key,
            current.children[child_key])
    ELSE path

\* SchemaLookup::lookup: SchemaMap::get at the top level (prefix None),
\* BTreeMap::get in the nested calls
Lookup(sch, prefix, key) ==
    IF ~prefix.some THEN SchemaMapGet(sch, key)
    ELSE IF key \in DOMAIN sch THEN Some(sch[key]) ELSE None

\* build_conf_map; BuildLoop is its `for (key, mir_value) in input` with the
\* keys still to visit and the conf_map built so far
RECURSIVE BuildLoop(_, _, _, _, _)
BuildLoop(inp, sch, prefix, keys, conf_map) ==
    IF keys = <<>> THEN Ok(conf_map)
    ELSE
    LET key == Head(keys)
        mir_value == inp[key]
        dotted_key == IF prefix.some THEN prefix.v \o <<".">> \o key ELSE key
        found == Lookup(sch, prefix, key)
    IN
    IF ~found.some
    THEN IF ~prefix.some /\ DOMAIN sch # {}
         THEN Err(UnknownKey(key, get_lines_of_key(mir_value)))
         ELSE Err(UnknownKey(format_unknown_key_path(dotted_key, mir_value),
                             get_lines_of_key(mir_value)))
    ELSE
    LET schema_value == found.v
        conf_value ==
            IF schema_value.tag = "Scalar"
            THEN inject_payload(dotted_key, schema_value.payload, mir_value)
            ELSE IF mir_value.tag # "Map" THEN Panic("build_conf_map")
            ELSE LET nested == BuildLoop(mir_value.children,
                                         schema_value.children,
                                         Some(dotted_key),
                                         SortedKeys(mir_value.children),
                                         EmptyMap)
                 IN IF nested.tag = "Ok" THEN Ok(Map(nested.val)) ELSE nested
    IN
    IF conf_value.tag = "Ok"
    THEN BuildLoop(inp, sch, prefix, Tail(keys),
                   MapPut(conf_map, key, conf_value.val))
    ELSE conf_value

\* mutant: the top-level keys are visited from the last to the first
build_conf_map_last_first(inp, sch, prefix) ==
    LET keys == SortedKeys(inp) IN
    BuildLoop(inp, sch, prefix,
              [n \in 1..Len(keys) |-> keys[Len(keys) + 1 - n]], EmptyMap)

build_conf_map(inp, sch, prefix) ==
    BuildLoop(inp, sch, prefix, SortedKeys(inp), EmptyMap)

\* mutant: a top-level key of the schema that the text does not assign is
\* reported as unknown
into_conf_complete(mir, sch) ==
    IF DOMAIN sch \ DOMAIN mir # {}
    THEN Err(UnknownKey(Head(SortedSeq(DOMAIN sch \ DOMAIN mir)), <<>>))
    ELSE build_conf_map(mir, sch, None)

\* <StructuredInput as BuildConf>::into_conf
into_conf(mir, sch) == build_conf_map(mir, sch, None)

(***************************************************************************)
(* parser/schema.rs: the schema compiler                                   *)
(***************************************************************************)
\* mutant: `string` names the kind String as well (ascii_case_insensitive)
\* <SingleValueDiscriminants as FromStr>::from_str, derived by strum's
\* EnumString: the exact name of a variant, anything else is VariantNotFound
from_str_any_case(s) ==
    IF s \in {<<"S", "t", "r", "i", "n", "g">>, <<"s", "t", "r", "i", "n", "g">>}
    THEN Ok("String")
    ELSE IF s = <<"B", "o", "o", "l">> THEN Ok("Bool")
    ELSE IF s = <<"I", "n", "t", "e", "g", "e", "r">> THEN Ok("Integer")
    ELSE Err("VariantNotFound")

from_str(s) ==
    IF s = <<"S", "t", "r", "i", "n", "g">> THEN Ok("String")
    ELSE IF s = <<"B", "o", "o", "l">> THEN Ok("Bool")
    ELSE IF s = <<"I", "n", "t", "e", "g", "e", "r">> THEN Ok("Integer")
    ELSE Err("VariantNotFound")

\* impl From<strum::ParseError> for ParseError
FromStrumError(e) == InvalidValue(<<>>, <<>>, "Bool", 0)

\* value.split(',').map(|s| from_str(s.trim())).try_collect()
RECURSIVE CollectKinds(_, _)
CollectKinds(pieces, collected) ==
    IF pieces = <<>> THEN Ok(collected)
    ELSE LET kind == from_str(Trim(Head(pieces))) IN
         IF kind.tag = "Ok"
         THEN CollectKinds(Tail(pieces), Append(collected, kind.val))
         ELSE kind

\* mutant: the kinds of a collection are listed once each
parse_schema_value_distinct(value) ==
    IF \E p \in 1..Len(value) : value[p] = ","
    THEN LET kinds == CollectKinds(Split(value, ","), <<>>) IN
         IF kinds.tag = "Ok"
         THEN Ok(Scalar(Collection(
                 SelectSeq(
                    [i \in 1..Len(kinds.val) |->
                        IF \E j \in 1..(i - 1) : kinds.val[j] = kinds.val[i]
                        THEN "" ELSE kinds.val[i]],
                    LAMBDA kind : kind # ""))))
         ELSE Err(FromStrumError(kinds.err))
    ELSE LET kind == from_str(value) IN
         IF kind.tag = "Ok" THEN Ok(Scalar(Single(kind.val)))
         ELSE Err(FromStrumError(kind.err))

parse_schema_value(value) ==
    IF \E p \in 1..Len(value) : value[p] = ","
    THEN LET kinds == CollectKinds(Split(value, ","), <<>>) IN
         IF kinds.tag = "Ok" THEN Ok(Scalar(Collection(kinds.val)))
         ELSE Err(FromStrumError(kinds.err))
    ELSE LET kind == from_str(value) IN
         IF kind.tag = "Ok" THEN Ok(Scalar(Single(kind.val)))
         ELSE Err(FromStrumError(kind.err))

\* <StructuredInput as BuildSchema>::into_schema; SchemaLoop is its
\* `for (key, mir_value) in self.into_iter()` with the keys still to visit
\* and the schema_map built so far
RECURSIVE SchemaLoop(_, _, _)
SchemaLoop(mir, keys, schema_map) ==
    IF keys = <<>> THEN Ok(schema_map)
    ELSE
    LET key == Head(keys)
        mir_value == mir[key]
        compiled ==
            IF mir_value.tag = "Scalar"
            THEN parse_schema_value(mir_value.payload[1])
            ELSE LET nested == SchemaLoop(mir_value.children,
                                          SortedKeys(mir_value.children),
                                          EmptyMap)
                 IN IF nested.tag = "Ok" THEN Ok(Map(nested.val)) ELSE nested
    IN
    IF compiled.tag = "Ok"
    THEN SchemaLoop(mir, Tail(keys), MapPut(schema_map, key, compiled.val))
    ELSE compiled

into_schema(mir) == SchemaLoop(mir, SortedKeys(mir), EmptyMap)

(***************************************************************************)
(* show.rs: the plain-conf rendering                                       *)
(***************************************************************************)
\* format!("{}", n) for an i32: a minus sign for a negative number, then the
\* decimal digits of its magnitude (taken from n itself when n is negative,
\* as the magnitude of i32::MIN is not an i32)
RECURSIVE DigitsOfNonNegative(_)
DigitsOfNonNegative(n) ==
    IF n < 10 THEN <<Digits[n + 1]>>
    ELSE DigitsOfNonNegative(n \div 10) \o <<Digits[(n % 10) + 1]>>

RECURSIVE DigitsOfNegative(_)
DigitsOfNegative(n) ==
    LET d == (10 - (n % 10)) % 10
        q == (n + d) \div 10
    IN IF q = 0 THEN <<Digits[d + 1]>>
       ELSE DigitsOfNegative(q) \o <<Digits[d + 1]>>

FormatI32(n) ==
    IF n < 0 THEN <<"-">> \o DigitsOfNegative(n) ELSE DigitsOfNonNegative(n)

render_single(value) ==
    CASE value.tag = "String" -> value.s
      [] value.tag = "Bool" ->
            IF value.b THEN <<"t", "r", "u", "e">>
            ELSE <<"f", "a", "l", "s", "e">>
      [] value.tag = "Integer" -> FormatI32(value.i)

\* [String]::join(sep)
RECURSIVE JoinWith(_, _)
JoinWith(pieces, sep) ==
    IF pieces = <<>> THEN <<>>
    ELSE IF Len(pieces) = 1 THEN pieces[1]
    ELSE pieces[1] \o sep \o JoinWith(Tail(pieces), sep)

render_scalar(value) ==
    IF value.tag = "Single" THEN render_single(value.v)
    ELSE JoinWith([i \in 1..Len(value.items) |-> render_single(value.items[i])],
                  <<",">>)

\* collect_entries of conf_map_as_conf: the `for (key, value) in
\* conf_map.iter()` with the keys still to visit and the lines pushed so far
RECURSIVE collect_entries(_, _, _, _)
collect_entries(conf_map, prefix, keys, output) ==
    IF keys = <<>> THEN output
    ELSE
    LET key == Head(keys)
        value == conf_map[key]
        full_key == IF prefix = <<>> THEN key ELSE prefix \o <<".">> \o key
    IN
    IF value.tag = "Scalar"
    THEN collect_entries(conf_map, prefix, Tail(keys),
                         Append(output,
                                full_key \o <<" ", "=", " ">>
                                    \o render_scalar(value.payload)))
    ELSE collect_entries(conf_map, prefix, Tail(keys),
                         collect_entries(value.children, full_key,
                                         SortedKeys(value.children), output))

\* mutant: the lines are sorted as strings before they are joined
conf_map_as_conf_sorted(conf_map) ==
    LET lines == collect_entries(conf_map, <<>>, SortedKeys(conf_map), <<>>)
    IN JoinWith(SortedSeq({ lines[i] : i \in 1..Len(lines) }), <<"\n">>)

conf_map_as_conf(conf_map) ==
    LET lines == collect_entries(conf_map, <<>>, SortedKeys(conf_map), <<>>)
    IN JoinWith(lines, <<"\n">>)

(***************************************************************************)
(* Inputs: configuration texts (as their lines) and schemas                *)
(***************************************************************************)
\* "a = x", "a=y<TAB> z #c", "a.b = x", " a . b =y ", "a.c=7", "a.b.c=x",
\* "b=7", "", " #a=x", "a", " =x", "a..b=x", "a=#c", ".a=x", "a.=x"
MainLines ==
    { <<"a", " ", "=", " ", "x">>,
      <<"a", "=", "y", "\t", " ", "z", " ", "#", "c">>,
      <<"a", ".", "b", " ", "=", " ", "x">>,
      <<" ", "a", " ", ".", " ", "b", " ", "=", "y", " ">>,
      <<"a", ".", "c", "=", "7">>,
      <<"a", ".", "b", ".", "c", "=", "x">>,
      <<"b", "=", "7">>,
      <<>>,
      <<" ", "#", "a", "=", "x">>,
      <<"a">>,
      <<" ", "=", "x">>,
      <<"a", ".", ".", "b", "=", "x">>,
      <<"a", "=", "#", "c">>,
      <<".", "a", "=", "x">>,
      <<"a", ".", "=", "x">> }

\* every text of at most n lines over `lines`
Texts(lines, n) == UNION { [1..k -> lines] : k \in 0..n }

\* {}, {a -> String, b -> Integer}, {a.b -> String, a.c -> String, Integer},
\* {a.b.c -> Bool, b -> Integer, Integer}, {b -> Bool}, {a.c -> String}
MainSchemas ==
    { EmptyMap,
      (<<"a">> :> Scalar(Single("String")))
          @@ (<<"b">> :> Scalar(Single("Integer"))),
      (<<"a">> :> Map((<<"b">> :> Scalar(Single("String")))
                      @@ (<<"c">> :> Scalar(Collection(
                                        <<"String", "Integer">>))))),
      (<<"a">> :> Map(<<"b">> :> Map(<<"c">> :> Scalar(Single("Bool")))))
          @@ (<<"b">> :> Scalar(Collection(<<"Integer", "Integer">>))),
      (<<"b">> :> Scalar(Single("Bool"))),
      (<<"a">> :> Map(<<"c">> :> Scalar(Single("String")))) }

\* the integers of the round trip: the ends of the range, their neighbours,
\* the numbers around a change of length
TestInts ==
    { I32Min, I32Min + 1, -1000000000, -999999999, -10, -9, -1, 0, 1, 9, 10,
      214748364, 1000000000, I32Max - 1, I32Max }

\* texts that are not the formatting of an i32: "x", "1x", "-", "+", "--1",
\* "1.5", "1 2", "2147483648", "-2147483649", "99999999999", "+5", "007",
\* "-0"
OtherTexts ==
    { <<"x">>, <<"1", "x">>, <<"-">>, <<"+">>, <<"-", "-", "1">>,
      <<"1", ".", "5">>, <<"1", "\t", "2">>,
      <<"2", "1", "4", "7", "4", "8", "3", "6", "4", "8">>,
      <<"-", "2", "1", "4", "7", "4", "8", "3", "6", "4", "9">>,
      <<"9", "9", "9", "9", "9", "9", "9", "9", "9", "9", "9">>,
      <<"+", "5">>, <<"0", "0", "7">>, <<"-", "0">> }

\* format!("retry.count = {}\n", input)
IntLine(key, text) == key \o <<" ", "=", " ">> \o text

\* "n = <text>" for every text, "a.n = <text>" for four of them, a blank
\* line and a line without delimiter
IntLines ==
    { IntLine(<<"n">>, text) :
        text \in { FormatI32(n) : n \in TestInts } \cup OtherTexts }
    \cup { IntLine(<<"a", ".", "n">>, text) :
             text \in { FormatI32(I32Min), FormatI32(9), <<"x">>,
                        <<"2", "1", "4", "7", "4", "8", "3", "6", "4", "8">> } }
    \cup { <<>>, <<"n">> }

\* {n -> Integer, a.n -> Integer},
\* {n -> String, Integer, Bool; a.n -> Integer, Integer},
\* {n -> Bool, Integer; a.n -> String}
IntSchemas ==
    { (<<"n">> :> Scalar(Single("Integer")))
          @@ (<<"a">> :> Map(<<"n">> :> Scalar(Single("Integer")))),
      (<<"n">> :> Scalar(Collection(<<"String", "Integer", "Bool">>)))
          @@ (<<"a">> :> Map(<<"n">> :> Scalar(Collection(
                                           <<"Integer", "Integer">>)))),
      (<<"n">> :> Scalar(Collection(<<"Bool", "Integer">>)))
          @@ (<<"a">> :> Map(<<"n">> :> Scalar(Single("String")))) }

\* value texts around the literal `true` and around inline comments: "true",
\* "True", "1", "7,7", "false", "true x", "true#c", "x;y#z", "x #y;z", ";x",
\* " # c"
KindTexts ==
    { <<"t", "r", "u", "e">>, <<"T", "r", "u", "e">>, <<"1">>,
      <<"7", ",", "7">>,
      <<"f", "a", "l", "s", "e">>, <<"t", "r", "u", "e", " ", "x">>,
      <<"t", "r", "u", "e", "#", "c">>, <<"x", ";", "y", "#", "z">>,
      <<"x", " ", "#", "y", ";", "z">>, <<";", "x">>, <<" ", "#", " ", "c">> }

\* "n = <text>" for every text, "a.n = true", "a.n = 7", the skipped lines
\* "<TAB>", ";n=1" and " #", and a line without delimiter
KindLines ==
    { IntLine(<<"n">>, text) : text \in KindTexts }
    \cup { IntLine(<<"a", ".", "n">>, text) :
             text \in { <<"t", "r", "u", "e">>, <<"7">> } }
    \cup { <<"\t">>, <<";", "n", "=", "1">>, <<" ", "#">>, <<"n">> }

\* {n -> Bool, a.n -> Bool},
\* {n -> Bool, String, Bool; a.n -> Integer, Bool},
\* {n -> String, Integer, String; a.n -> Integer},
\* {n -> String; a.n -> String, String}
KindSchemas ==
    { (<<"n">> :> Scalar(Single("Bool")))
          @@ (<<"a">> :> Map(<<"n">> :> Scalar(Single("Bool")))),
      (<<"n">> :> Scalar(Collection(<<"Bool", "String", "Bool">>)))
          @@ (<<"a">> :> Map(<<"n">> :> Scalar(Collection(
                                           <<"Integer", "Bool">>)))),
      (<<"n">> :> Scalar(Collection(<<"String", "Integer", "String">>)))
          @@ (<<"a">> :> Map(<<"n">> :> Scalar(Single("Integer")))),
      (<<"n">> :> Scalar(Single("String")))
          @@ (<<"a">> :> Map(<<"n">> :> Scalar(Collection(
                                           <<"String", "String">>)))) }

\* "a -> String", "a->Bool , Integer", "a.b -> Integer,Integer #c",
\* "a.c -> Bool", "a.b.c -> Integer", "b -> String, String", "b -> string",
\* "b->Bool,x", "a.b -> String,", "b -> Bool Integer", "a -> x -> Bool",
\* "# a -> x", "", "a = String"
SchemaLines ==
    { <<"a", " ", "-", ">", " ", "S", "t", "r", "i", "n", "g">>,
      <<"a", "-", ">", "B", "o", "o", "l", " ", ",", " ",
        "I", "n", "t", "e", "g", "e", "r">>,
      <<"a", ".", "b", " ", "-", ">", " ",
        "I", "n", "t", "e", "g", "e", "r", ",",
        "I", "n", "t", "e", "g", "e", "r", " ", "#", "c">>,
      <<"a", ".", "c", " ", "-", ">", " ", "B", "o", "o", "l">>,
      <<"a", ".", "b", ".", "c", " ", "-", ">", " ",
        "I", "n", "t", "e", "g", "e", "r">>,
      <<"b", " ", "-", ">", " ", "S", "t", "r", "i", "n", "g", ",", " ",
        "S", "t", "r", "i", "n", "g">>,
      <<"b", " ", "-", ">", " ", "s", "t", "r", "i", "n", "g">>,
      <<"b", "-", ">", "B", "o", "o", "l", ",", "x">>,
      <<"a", ".", "b", " ", "-", ">", " ", "S", "t", "r", "i", "n", "g", ",">>,
      <<"b", " ", "-", ">", " ", "B", "o", "o", "l", " ",
        "I", "n", "t", "e", "g", "e", "r">>,
      <<"a", " ", "-", ">", " ", "x", " ", "-", ">", " ", "B", "o", "o", "l">>,
      <<"#", " ", "a", " ", "-", ">", " ", "x">>,
      <<>>,
      <<"a", " ", "=", " ", "S", "t", "r", "i", "n", "g">> }

\* "a.b = x", "a-b = 7", "a.c = true", "b = -7", "b = x = y", "a.b = 7",
\* "", "a"
ShowLines ==
    { IntLine(<<"a", ".", "b">>, <<"x">>),
      IntLine(<<"a", "-", "b">>, <<"7">>),
      IntLine(<<"a", ".", "c">>, <<"t", "r", "u", "e">>),
      IntLine(<<"b">>, <<"-", "7">>),
      IntLine(<<"b">>, <<"x", " ", "=", " ", "y">>),
      IntLine(<<"a", ".", "b">>, <<"7">>),
      <<>>,
      <<"a">> }

\* {a.b -> String, a.c -> Bool, a-b -> Integer, b -> String},
\* {a.b -> Integer, String; a.c -> Bool, Bool; a-b -> String, Integer;
\*  b -> Integer}
ShowSchemas ==
    { (<<"a">> :> Map((<<"b">> :> Scalar(Single("String")))
                      @@ (<<"c">> :> Scalar(Single("Bool")))))
          @@ (<<"a", "-", "b">> :> Scalar(Single("Integer")))
          @@ (<<"b">> :> Scalar(Single("String"))),
      (<<"a">> :> Map((<<"b">> :> Scalar(Collection(<<"Integer", "String">>)))
                      @@ (<<"c">> :> Scalar(Collection(<<"Bool", "Bool">>)))))
          @@ (<<"a", "-", "b">> :> Scalar(Collection(<<"String", "Integer">>)))
          @@ (<<"b">> :> Scalar(Single("Integer"))) }

\* lines whose keys and values fail the reconciliation in an order that is
\* not the order of the keys: "b = x", "a.b = x", "a.c = 7", "c = 1",
\* "z = y", "a.x = 1", "", " # c", "a", "a.b.c = 1"
ReconcileLines ==
    { <<"b", " ", "=", " ", "x">>,
      <<"a", ".", "b", " ", "=", " ", "x">>,
      <<"a", ".", "c", " ", "=", " ", "7">>,
      <<"c", " ", "=", " ", "1">>,
      <<"z", " ", "=", " ", "y">>,
      <<"a", ".", "x", " ", "=", " ", "1">>,
      <<>>,
      <<" ", "#", " ", "c">>,
      <<"a">>,
      <<"a", ".", "b", ".", "c", " ", "=", " ", "1">> }

\* {a.b -> Integer, a.c -> Integer, b -> Integer, c -> String},
\* {a.c -> Integer, y -> Bool, z -> Integer}, {},
\* {a.b -> String, a.c -> String, a.x -> String, a.y -> Bool, b -> String,
\*  c -> String, y -> Bool, z -> String}
ReconcileSchemas ==
    { (<<"a">> :> Map((<<"b">> :> Scalar(Single("Integer")))
                      @@ (<<"c">> :> Scalar(Single("Integer")))))
          @@ (<<"b">> :> Scalar(Single("Integer")))
          @@ (<<"c">> :> Scalar(Single("String"))),
      (<<"a">> :> Map(<<"c">> :> Scalar(Single("Integer"))))
          @@ (<<"y">> :> Scalar(Single("Bool")))
          @@ (<<"z">> :> Scalar(Single("Integer"))),
      EmptyMap,
      (<<"a">> :> Map((<<"b">> :> Scalar(Single("String")))
                      @@ (<<"c">> :> Scalar(Single("String")))
                      @@ (<<"x">> :> Scalar(Single("String")))
                      @@ (<<"y">> :> Scalar(Single("Bool")))))
          @@ (<<"b">> :> Scalar(Single("String")))
          @@ (<<"c">> :> Scalar(Single("String")))
          @@ (<<"y">> :> Scalar(Single("Bool")))
          @@ (<<"z">> :> Scalar(Single("String"))) }

\* lines for the tokenizer, the key path resolver and the value
\* normalisation with `=`: "a = x = y", " a . b =<TAB>x<TAB>  y  ",
\* "a.b=x  y", "a b . c = -> x", "a<TAB>.<TAB>b = x", "a . . b = x", "=x",
\* "a.b = ;", "a", "", " #c", "a.b.c = 1"
BuildConfLines ==
    { <<"a", " ", "=", " ", "x", " ", "=", " ", "y">>,
      <<" ", "a", " ", ".", " ", "b", " ", "=", "\t", "x", "\t", " ", " ",
        "y", " ", " ">>,
      <<"a", ".", "b", "=", "x", " ", " ", "y">>,
      <<"a", " ", "b", " ", ".", " ", "c", " ", "=", " ", "-", ">", " ", "x">>,
      <<"a", "\t", ".", "\t", "b", " ", "=", " ", "x">>,
      <<"a", " ", ".", " ", ".", " ", "b", " ", "=", " ", "x">>,
      <<"=", "x">>,
      <<"a", ".", "b", " ", "=", " ", ";">>,
      <<"a">>,
      <<>>,
      <<" ", "#", "c">>,
      <<"a", ".", "b", ".", "c", " ", "=", " ", "1">> }

\* the same with `->`: "a -> x -> Bool", "a.b->Bool",
\* " a . b -><TAB>Integer ,  Bool ", "a = b -> String", "a - > Bool",
\* "a --> Bool", "-> Bool", "a.b ->", "", "a > b -> Bool ->"
BuildSchemaLines ==
    { <<"a", " ", "-", ">", " ", "x", " ", "-", ">", " ", "B", "o", "o", "l">>,
      <<"a", ".", "b", "-", ">", "B", "o", "o", "l">>,
      <<" ", "a", " ", ".", " ", "b", " ", "-", ">", "\t", "I", "n", "t",
        "e", "g", "e", "r", " ", ",", " ", " ", "B", "o", "o", "l", " ">>,
      <<"a", " ", "=", " ", "b", " ", "-", ">", " ", "S", "t", "r", "i",
        "n", "g">>,
      <<"a", " ", "-", " ", ">", " ", "B", "o", "o", "l">>,
      <<"a", " ", "-", "-", ">", " ", "B", "o", "o", "l">>,
      <<"-", ">", " ", "B", "o", "o", "l">>,
      <<"a", ".", "b", " ", "-", ">">>,
      <<>>,
      <<"a", " ", ">", " ", "b", " ", "-", ">", " ", "B", "o", "o", "l",
        " ", "-", ">">> }

\* the keys looked up in a finished configuration tree
QueryKeys ==
    { <<"a">>, <<"b">>, <<"a", ".", "b">>, <<"a", ".", "c">>,
      <<"a", ".", "b", ".", "c">>, <<" ", "a", " ", ".", " ", "b">>,
      <<"a", ".", "x">>, <<"a", ".">>, <<>>, <<"n">>, <<"a", ".", "n">> }

(***************************************************************************)
(* conf::parse_str as a state machine: one step per line of the text, one  *)
(* step for the reconciliation, then lookups in the returned tree          *)
(***************************************************************************)
Pending == [tag |-> "Pending"]

Start ==
    /\ idx = 0
    /\ root = EmptyMap
    /\ pc = "lines"
    /\ result = Pending
    /\ query = None

Init ==
    /\ input \in Texts(MainLines, MaxLines)
    /\ schema \in MainSchemas
    /\ Start

\* texts whose values are integer texts, against schemas that declare Integer
IntInit ==
    /\ input \in Texts(IntLines, MaxIntLines)
    /\ schema \in IntSchemas
    /\ Start

\* texts whose values are near the literal `true` or carry inline comments,
\* against schemas that declare every kind, alone and in collections
KindInit ==
    /\ input \in Texts(KindLines, MaxKindLines)
    /\ schema \in KindSchemas
    /\ Start

\* schema::parse_str starts on a schema text; no schema is given to it
SchemaInit ==
    /\ input \in Texts(SchemaLines, MaxSchemaLines)
    /\ schema = EmptyMap
    /\ idx = 0
    /\ root = EmptyMap
    /\ pc = "schema_lines"
    /\ result = Pending
    /\ query = None

\* texts with a key segment that holds `-`, against schemas of every kind
ShowInit ==
    /\ input \in Texts(ShowLines, MaxShowLines)
    /\ schema \in ShowSchemas
    /\ Start

\* the tree builder on a text that is then given to the parser of lib.rs
LegacyInit ==
    /\ input \in Texts(BuildConfLines, MaxLegacyLines)
    /\ schema = EmptyMap
    /\ Start

\* texts whose failing keys come in any order of lines and keys
ReconcileInit ==
    /\ input \in Texts(ReconcileLines, MaxReconcileLines)
    /\ schema \in ReconcileSchemas
    /\ Start

\* either parser on a text that exercises the tokenizer, against no schema
BuildInit ==
    \/ /\ input \in Texts(BuildConfLines, MaxBuildLines)
       /\ schema = EmptyMap
       /\ Start
    \/ /\ input \in Texts(BuildSchemaLines, MaxBuildLines)
       /\ schema = EmptyMap
       /\ idx = 0
       /\ root = EmptyMap
       /\ pc = "schema_lines"
       /\ result = Pending
       /\ query = None

\* str_to_mir: a blank or comment line is passed over
SkipLine ==
    /\ pc = "lines"
    /\ idx < Len(input)
    /\ IsSkipped(input[idx + 1])
    /\ idx' = idx + 1
    /\ UNCHANGED <<input, schema, root, pc, result, query>>

\* mutant: an error is recorded and the loop goes on to the next line
ProcessLine_goes_on ==
    /\ pc = "lines"
    /\ idx < Len(input)
    /\ ~IsSkipped(input[idx + 1])
    /\ LET line_no == idx + 1
           step == LineStep(SepConf, root, Trim(input[idx + 1]), line_no)
       IN /\ root' = step.map
          /\ idx' = idx + 1
          /\ IF step.err = NoError
             THEN UNCHANGED result
             ELSE result' = Err(step.err)
    /\ UNCHANGED <<input, schema, pc, query>>

\* str_to_mir: an assignment line is tokenized and inserted; the first
\* error ends the parse (`?`)
ProcessLine ==
    /\ pc = "lines"
    /\ idx < Len(input)
    /\ ~IsSkipped(input[idx + 1])
    /\ LET line_no == idx + 1
           step == LineStep(SepConf, root, Trim(input[idx + 1]), line_no)
       IN /\ root' = step.map
          /\ idx' = idx + 1
          /\ IF step.err = NoError
             THEN UNCHANGED <<pc, result>>
             ELSE /\ pc' = "done"
                  /\ result' = Err(step.err)
    /\ UNCHANGED <<input, schema, query>>

\* mutant: the tree built so far is reconciled before the text is exhausted
IntoConf_any_time ==
    /\ pc = "lines"
    /\ result' = into_conf(root, schema)
    /\ pc' = "done"
    /\ UNCHANGED <<input, schema, idx, root, query>>

\* conf::parse_str: the text is exhausted, the tree goes to into_conf
IntoConf ==
    /\ pc = "lines"
    /\ idx = Len(input)
    /\ result' = into_conf(root, schema)
    /\ pc' = "done"
    /\ UNCHANGED <<input, schema, idx, root, query>>

\* parse_str of lib.rs on the text the tree builder has gone through
LegacyParse ==
    /\ IF pc = "lines" THEN idx = Len(input) ELSE pc = "done"
    /\ query' = Some([legacy |-> lib_parse_str(input)])
    /\ pc' = "compared"
    /\ UNCHANGED <<input, schema, idx, root, result>>

\* ConfMap::get on the returned tree
Get ==
    /\ pc = "done"
    /\ result.tag = "Ok"
    /\ \E key \in QueryKeys :
          query' = Some([key |-> key, value |-> ConfMapGet(result.val, key)])
    /\ pc' = "queried"
    /\ UNCHANGED <<input, schema, idx, root, result>>

\* str_to_mir::<SingleValueDiscriminants>: a blank or comment line of the
\* schema text is passed over
SkipSchemaLine ==
    /\ pc = "schema_lines"
    /\ idx < Len(input)
    /\ IsSkipped(input[idx + 1])
    /\ idx' = idx + 1
    /\ UNCHANGED <<input, schema, root, pc, result, query>>

\* str_to_mir::<SingleValueDiscriminants>: a line of the schema text is
\* tokenized at `->` and inserted; the first error ends the parse (`?`)
ProcessSchemaLine ==
    /\ pc = "schema_lines"
    /\ idx < Len(input)
    /\ ~IsSkipped(input[idx + 1])
    /\ LET line_no == idx + 1
           step == LineStep(SepSchema, root, Trim(input[idx + 1]), line_no)
       IN /\ root' = step.map
          /\ idx' = idx + 1
          /\ IF step.err = NoError
             THEN UNCHANGED <<pc, result>>
             ELSE /\ pc' = "schema_done"
                  /\ result' = Err(step.err)
    /\ UNCHANGED <<input, schema, query>>

\* schema::parse_str: the text is exhausted, the tree goes to into_schema
IntoSchema ==
    /\ pc = "schema_lines"
    /\ idx = Len(input)
    /\ result' = into_schema(root)
    /\ pc' = "schema_done"
    /\ UNCHANGED <<input, schema, idx, root, query>>

\* SchemaMap::get on the returned schema tree
GetSchema ==
    /\ pc = "schema_done"
    /\ result.tag = "Ok"
    /\ \E key \in QueryKeys :
          query' = Some([key |-> key, value |-> SchemaMapGet(result.val, key)])
    /\ pc' = "schema_queried"
    /\ UNCHANGED <<input, schema, idx, root, result>>

\* <ConfMap as Show>::show: the returned tree is printed in the default
\* format, ShowFmt::Conf
ShowConf ==
    /\ pc = "done"
    /\ result.tag = "Ok"
    /\ query' = Some([fmt |-> "Conf", output |-> conf_map_as_conf(result.val)])
    /\ pc' = "shown"
    /\ UNCHANGED <<input, schema, idx, root, result>>

Next == SkipLine \/ ProcessLine \/ IntoConf \/ Get

Spec == Init /\ [][Next]_vars

IntSpec == IntInit /\ [][Next]_vars

KindSpec == KindInit /\ [][Next]_vars

SchemaNext == SkipSchemaLine \/ ProcessSchemaLine \/ IntoSchema \/ GetSchema

SchemaSpec == SchemaInit /\ [][SchemaNext]_vars

\* either parser, for what holds of the trees of both
TreeInit ==
    \/ /\ input \in Texts(MainLines, MaxTreeLines)
       /\ schema \in MainSchemas
       /\ Start
    \/ SchemaInit

TreeNext ==
    \/ SkipLine
    \/ ProcessLine
    \/ IntoConf
    \/ Get
    \/ SkipSchemaLine
    \/ ProcessSchemaLine
    \/ IntoSchema
    \/ GetSchema

TreeSpec == TreeInit /\ [][TreeNext]_vars

ShowNext == SkipLine \/ ProcessLine \/ IntoConf \/ ShowConf

ShowSpec == ShowInit /\ [][ShowNext]_vars

BuildNext ==
    \/ SkipLine
    \/ ProcessLine
    \/ IntoConf
    \/ SkipSchemaLine
    \/ ProcessSchemaLine
    \/ IntoSchema

BuildSpec == BuildInit /\ [][BuildNext]_vars

\* the tree builder of the typed pipeline, then the parser of lib.rs
LegacyNext == SkipLine \/ ProcessLine \/ LegacyParse

LegacySpec == LegacyInit /\ [][LegacyNext]_vars

\* conf::parse_str alone: the tree builder, then the reconciliation
ReconcileNext == SkipLine \/ ProcessLine \/ IntoConf

ReconcileSpec == ReconcileInit /\ [][ReconcileNext]_vars

(***************************************************************************)
(* Vocabulary of the properties                                            *)
(***************************************************************************)
\* line i of the text is an assignment line: not blank, not a comment, and
\* it contains the delimiter
IsAssignment(i) ==
    /\ ~IsSkipped(input[i])
    /\ \E p \in 1..Len(input[i]) : input[i][p] = "="

\* position of the first `=` of an assignment line
DelimiterAt(line) ==
    CHOOSE p \in 1..Len(line) :
        line[p] = "=" /\ \A q \in 1..(p - 1) : line[q] # "="

\* the text before and the text after the first `=`
KeyText(line) == SubSeq(line, 1, DelimiterAt(line) - 1)

ValueText(line) == SubSeq(line, DelimiterAt(line) + 1, Len(line))

\* the segments a key text names: the pieces between the dots, trimmed
SegmentsOf(key) == TrimAll(Split(Trim(key), "."))

ValidKey(key) ==
    /\ Trim(key) # <<>>
    /\ \A i \in 1..Len(SegmentsOf(key)) : SegmentsOf(key)[i] # <<>>

\* the value text with the inline comment removed and the ends trimmed
Stripped(value) ==
    LET cut == { p \in 1..Len(value) : value[p] \in {"#", ";"} }
        upto == IF cut = {} THEN Len(value)
                ELSE (CHOOSE p \in cut : \A q \in cut : p <= q) - 1
    IN Trim(SubSeq(value, 1, upto))

\* a trimmed text with every run of whitespace replaced by one space: a
\* whitespace character is kept, as a space, iff it starts its run
RECURSIVE CollapsedFrom(_, _)
CollapsedFrom(t, i) ==
    IF i > Len(t) THEN <<>>
    ELSE IF ~IsWhitespace(t[i]) THEN <<t[i]>> \o CollapsedFrom(t, i + 1)
    ELSE IF i > 1 /\ IsWhitespace(t[i - 1]) THEN CollapsedFrom(t, i + 1)
    ELSE <<" ">> \o CollapsedFrom(t, i + 1)

Collapsed(t) == CollapsedFrom(t, 1)

\* line i is the last assignment of the text to its key path
IsLastAssignment(i) ==
    \A j \in (i + 1)..Len(input) :
        IsAssignment(j) =>
            SegmentsOf(KeyText(input[j])) # SegmentsOf(KeyText(input[i]))

\* the schema declares the dotted path `key` as a leaf of the single `kind`
Declares(key, kind) == SchemaMapGet(schema, key) = Some(Scalar(Single(kind)))

\* the lines of the text that C1 speaks about, for the key that was looked up
C1_Lines ==
    { i \in 1..Len(input) :
        /\ IsAssignment(i)
        /\ ValidKey(KeyText(input[i]))
        /\ IsLastAssignment(i)
        /\ query.v.key = Join(SegmentsOf(KeyText(input[i])))
        /\ Declares(query.v.key, "String") }

(***************************************************************************)
(* C1                                                                      *)
(***************************************************************************)
\* C1 (as stated): after a successful parse, looking up the key of a line
\* `k = v` declared String returns the String leaf whose text is v with the
\* inline comment removed and the surrounding whitespace trimmed.
C1_AsStated ==
    pc = "queried" =>
        \A i \in C1_Lines :
            query.v.value =
                Some(Scalar(Single(StringValue(
                    Stripped(ValueText(input[i]))))))

\* C1 (amended): ... returns the String leaf whose text is v with the inline
\* comment removed, the surrounding whitespace trimmed and every run of
\* internal whitespace collapsed to one space.
C1_Lookup ==
    pc = "queried" =>
        \A i \in C1_Lines :
            query.v.value =
                Some(Scalar(Single(StringValue(
                    Collapsed(Stripped(ValueText(input[i])))))))

\* a lookup that returned a value which had a comment and a whitespace run
C1_Witness ==
    /\ pc = "queried"
    /\ \E i \in C1_Lines :
          /\ Stripped(ValueText(input[i])) # Trim(ValueText(input[i]))
          /\ Collapsed(Stripped(ValueText(input[i])))
                # Stripped(ValueText(input[i]))
          /\ query.v.value.some

(***************************************************************************)
(* C2                                                                      *)
(***************************************************************************)
\* the leaves of a tree, each as <<segments of its path, payload>>
RECURSIVE LeavesOf(_, _)
LeavesOf(children, path) ==
    UNION { IF children[k].tag = "Scalar"
            THEN { <<Append(path, k), children[k].payload>> }
            ELSE LeavesOf(children[k].children, Append(path, k))
          : k \in DOMAIN children }

Leaves == LeavesOf(root, <<>>)

BuildErrorKinds ==
    {"MissingDelimiter", "EmptyKey", "EmptyValue", "InvalidKeySegment",
     "ConflictingTypes"}

\* the tree builder stopped at line idx with an error
BuildFailed == result.tag = "Err" /\ result.err.kind \in BuildErrorKinds

\* the number of lines that were consumed without an error
Accepted == IF BuildFailed THEN idx - 1 ELSE idx

\* the lines among the first n that assign to the path `segments`
AssignmentsTo(segments, n) ==
    { j \in 1..n : IsAssignment(j) /\ SegmentsOf(KeyText(input[j])) = segments }

Latest(lines) == CHOOSE j \in lines : \A k \in lines : k <= j

StrictPrefix(p, q) == Len(p) < Len(q) /\ SubSeq(q, 1, Len(p)) = p

\* line j is a well-formed assignment: valid key, value not empty
WellFormed(j) ==
    /\ IsAssignment(j)
    /\ ValidKey(KeyText(input[j]))
    /\ Stripped(ValueText(input[j])) # <<>>

\* the paths assigned by the accepted lines before line j
AssignedBefore(j) ==
    { SegmentsOf(KeyText(input[i])) : i \in { i \in 1..(j - 1) : IsAssignment(i) } }

\* C3: a well-formed assignment to p after an accepted assignment to a
\* strict extension of p fails with ConflictingTypes{key: p}; one to a strict
\* extension of an already assigned scalar path p fails with
\* ConflictingTypes{key: p}; the line is that of the second assignment.
C3_Conflict ==
    \A j \in 1..idx :
        WellFormed(j) /\ j <= Accepted + 1 =>
            LET q == SegmentsOf(KeyText(input[j])) IN
            /\ (\E e \in AssignedBefore(j) : StrictPrefix(q, e))
                  => /\ idx = j
                     /\ result = Err(ConflictingTypes(Join(q), j))
            /\ \A p \in AssignedBefore(j) :
                  StrictPrefix(p, q)
                  => /\ idx = j
                     /\ result = Err(ConflictingTypes(Join(p), j))

\* a key two segments deeper than an assigned scalar was rejected
C3_Witness ==
    /\ BuildFailed
    /\ result.err.kind = "ConflictingTypes"
    /\ idx > 1
    /\ LET q == SegmentsOf(KeyText(input[idx])) IN
       \E p \in AssignedBefore(idx) :
          /\ StrictPrefix(p, q)
          /\ Len(q) = Len(p) + 2

\* a scalar two segments above an assigned leaf was rejected
C3_WitnessAbove ==
    /\ BuildFailed
    /\ result.err.kind = "ConflictingTypes"
    /\ LET q == SegmentsOf(KeyText(input[idx])) IN
       \E e \in AssignedBefore(idx) :
          /\ StrictPrefix(q, e)
          /\ Len(e) = Len(q) + 2

(***************************************************************************)
(* C4                                                                      *)
(***************************************************************************)
\* p comes before q in depth-first key order: at the first segment where
\* they differ, p has the smaller segment
RECURSIVE PathLess(_, _)
PathLess(p, q) ==
    IF p = <<>> \/ q = <<>> THEN p = <<>> /\ q # <<>>
    ELSE IF Head(p) = Head(q) THEN PathLess(Tail(p), Tail(q))
    ELSE StrLess(Head(p), Head(q))

\* the schema node at a path, None when the schema has no entry there
RECURSIVE SchemaNodeAt(_, _)
SchemaNodeAt(children, path) ==
    IF Head(path) \notin DOMAIN children THEN None
    ELSE IF Len(path) = 1 THEN Some(children[Head(path)])
    ELSE IF children[Head(path)].tag = "Map"
         THEN SchemaNodeAt(children[Head(path)].children, Tail(path))
         ELSE None

\* every path of the untyped tree: the leaves' paths and their prefixes
TreePaths ==
    UNION { { SubSeq(leaf[1], 1, n) : n \in 1..Len(leaf[1]) } : leaf \in Leaves }

\* the path is in the tree, the schema has a map for each proper prefix of
\* it and no entry for the path itself
Unmatched(path) ==
    /\ path \in TreePaths
    /\ ~SchemaNodeAt(schema, path).some
    /\ \A n \in 1..(Len(path) - 1) :
          LET above == SchemaNodeAt(schema, SubSeq(path, 1, n)) IN
          above.some /\ above.v.tag = "Map"

\* the leaves at or below a path
LeavesUnder(path) ==
    { leaf \in Leaves :
        Len(path) <= Len(leaf[1]) /\ SubSeq(leaf[1], 1, Len(path)) = path }

\* the line numbers of a set of leaves, listed in depth-first key order
LinesInKeyOrder(leaves) ==
    [ n \in 1..Cardinality(leaves) |->
        LET nth == CHOOSE leaf \in leaves :
                      Cardinality({ o \in leaves : PathLess(o[1], leaf[1]) })
                          = n - 1
        IN nth[2][2] ]

\* C4: an UnknownKey lists the line of every leaf of the unmatched subtree,
\* once per leaf, in depth-first key order.
C4_AllLines ==
    result.tag = "Err" /\ result.err.kind = "UnknownKey" =>
        \E path \in TreePaths :
            /\ Unmatched(path)
            /\ result.err.lines = LinesInKeyOrder(LeavesUnder(path))

\* an UnknownKey for a subtree of two leaves whose lines are listed in key
\* order, which is not their order in the text
C4_Witness ==
    /\ result.tag = "Err"
    /\ result.err.kind = "UnknownKey"
    /\ Len(result.err.lines) = 2
    /\ result.err.lines[1] > result.err.lines[2]

(***************************************************************************)
(* C5                                                                      *)
(***************************************************************************)
\* C5: conf::parse_str ends either with a Configuration Tree or with one
\* ParseError, also when the schema declares a leaf where the text has a
\* subtree or a map where the text has a scalar.
C5_TwoOutcomes == pc # "lines" => result.tag \in {"Ok", "Err"}

(***************************************************************************)
(* C6                                                                      *)
(***************************************************************************)
\* what is wrong with line j on its own or against the lines before it, in
\* the order tokenizing, key, value, insertion; NoError if nothing is
Failure(j) ==
    LET line == input[j] IN
    IF IsSkipped(line) THEN NoError
    ELSE IF ~IsAssignment(j) THEN MissingDelimiter(j)
    ELSE IF Trim(KeyText(line)) = <<>> THEN EmptyKey(j)
    ELSE IF ~ValidKey(KeyText(line)) THEN InvalidKeySegment(<<>>, j)
    ELSE IF Stripped(ValueText(line)) = <<>> THEN EmptyValue(j)
    ELSE LET q == SegmentsOf(KeyText(line))
             clash == { p \in AssignedBefore(j) :
                          StrictPrefix(p, q) \/ StrictPrefix(q, p) }
         IN IF clash = {} THEN NoError
            ELSE LET p == CHOOSE p \in clash : TRUE IN
                 ConflictingTypes(
                    Join(IF StrictPrefix(p, q) THEN p ELSE q), j)

\* C6: the tree builder fails iff it meets a failing line; it stops at the
\* first such line (no line before it fails) with that line's error, which
\* depends on no later line, and returns the error alone.
C6_FirstError ==
    /\ \A j \in 1..Accepted : Failure(j) = NoError
    /\ BuildFailed =>
          /\ Failure(idx) # NoError
          /\ result = Err(Failure(idx))
          /\ result.err.line = idx
          /\ DOMAIN result = {"tag", "err"}
          /\ pc = "done"
          /\ query = None

\* the builder stopped at a line that follows accepted lines and is followed
\* by another failing line
C6_Witness ==
    /\ BuildFailed
    /\ \E i \in 1..(idx - 1) : IsAssignment(i)
    /\ \E k \in (idx + 1)..Len(input) :
          ~IsSkipped(input[k]) /\ (~IsAssignment(k) \/ ~WellFormed(k))

(***************************************************************************)
(* C7                                                                      *)
(***************************************************************************)
\* the kind of the node at a path of a tree: "Scalar", "Map" or "absent"
RECURSIVE KindAt(_, _)
KindAt(children, path) ==
    IF Head(path) \notin DOMAIN children THEN "absent"
    ELSE IF Len(path) = 1 THEN children[Head(path)].tag
    ELSE IF children[Head(path)].tag = "Map"
         THEN KindAt(children[Head(path)].children, Tail(path))
         ELSE "absent"

\* C7: a step of the tree builder keeps the kind of every path that is in the
\* tree: a scalar stays a scalar, a map stays a map, nothing is removed.
C7_ShapeStable ==
    [][\A path \in TreePaths : KindAt(root', path) = KindAt(root, path)]_vars

\* an insertion that clashed with the shape of the tree was attempted on a
\* tree that holds a map and a scalar
C7_Witness ==
    /\ BuildFailed
    /\ result.err.kind = "ConflictingTypes"
    /\ \E path \in TreePaths : KindAt(root, path) = "Map"
    /\ \E path \in TreePaths : KindAt(root, path) = "Scalar"

(***************************************************************************)
(* C8                                                                      *)
(***************************************************************************)
\* line j was reached by the tree builder
Reached(j) == j <= idx /\ j <= Accepted + 1

\* C8: a line without `=` fails with MissingDelimiter, a line with a blank
\* key part with EmptyKey, a line whose key has an empty segment with
\* InvalidKeySegment{segment: ""}; each carries the 1-based line number.
C8_LineErrors ==
    \A j \in 1..Len(input) :
        Reached(j) /\ ~IsSkipped(input[j]) =>
            IF ~IsAssignment(j)
            THEN result = Err(MissingDelimiter(j))
            ELSE IF Trim(KeyText(input[j])) = <<>>
            THEN result = Err(EmptyKey(j))
            ELSE (\E n \in 1..Len(SegmentsOf(KeyText(input[j]))) :
                      SegmentsOf(KeyText(input[j]))[n] = <<>>)
                 => result = Err(InvalidKeySegment(<<>>, j))

\* a line with a trailing dot in its key failed after a skipped line
C8_Witness ==
    /\ result = Err(InvalidKeySegment(<<>>, idx))
    /\ idx > 1
    /\ IsSkipped(input[1])
    /\ LET key == Trim(KeyText(input[idx])) IN key[Len(key)] = "."

\* a line without delimiter failed after a skipped line
C8_WitnessDelimiter ==
    /\ result = Err(MissingDelimiter(idx))
    /\ idx > 1
    /\ IsSkipped(input[idx - 1])

(***************************************************************************)
(* C9                                                                      *)
(***************************************************************************)
\* the schema declares the path as a leaf of the single kind Integer
IntegerKeys ==
    { key \in { <<"n">>, <<"a", ".", "n">> } : Declares(key, "Integer") }

\* line i assigns the formatting of the integer n to an Integer key, and no
\* later line assigns to that key
AssignsInt(i, key, n) ==
    /\ input[i] = IntLine(key, FormatI32(n))
    /\ IsLastAssignment(i)

\* every line of the text assigns the formatting of an integer to an
\* Integer key
OnlyIntegers ==
    \A i \in 1..Len(input) :
        \E key \in IntegerKeys, n \in TestInts :
            input[i] = IntLine(key, FormatI32(n))

\* C9: a line assigning the decimal formatting of an i32 n to a key declared
\* Integer is accepted, and the leaf then holds Integer(n).
C9_RoundTrip ==
    /\ pc # "lines" /\ OnlyIntegers => result.tag = "Ok"
    /\ pc # "lines" =>
          \A i \in 1..Len(input), key \in IntegerKeys, n \in TestInts :
              AssignsInt(i, key, n) =>
                  /\ result.tag = "Err" /\ result.err.kind = "InvalidValue"
                        => result.err.key # key
                  /\ pc = "queried" /\ query.v.key = key
                        => query.v.value =
                              Some(Scalar(Single(IntegerValue(n))))

\* the least i32 was assigned to a nested key and read back
C9_Witness ==
    /\ pc = "queried"
    /\ query.v.key = <<"a", ".", "n">>
    /\ \E i \in 1..Len(input) : AssignsInt(i, query.v.key, I32Min)
    /\ query.v.key \in IntegerKeys
    /\ query.v.value = Some(Scalar(Single(IntegerValue(I32Min))))

(***************************************************************************)
(* C10                                                                     *)
(***************************************************************************)
\* a text without its leading zeros
RECURSIVE WithoutLeadingZeros(_)
WithoutLeadingZeros(t) ==
    IF t # <<>> /\ Head(t) = "0" THEN WithoutLeadingZeros(Tail(t)) ELSE t

\* the digit string m, without leading zeros, is at most the digit string
\* `limit`
AtMost(m, limit) ==
    \/ Len(m) < Len(limit)
    \/ Len(m) = Len(limit) /\ (m = limit \/ StrLess(m, limit))

\* the text is a decimal integer in [-2^31, 2^31 - 1]: an optional sign,
\* then one or more digits, of a magnitude within the range
IsI32Text(t) ==
    LET signed == t # <<>> /\ Head(t) \in {"+", "-"}
        digits == IF signed THEN Tail(t) ELSE t
        limit == IF t # <<>> /\ Head(t) = "-"
                 THEN <<"2", "1", "4", "7", "4", "8", "3", "6", "4", "8">>
                 ELSE <<"2", "1", "4", "7", "4", "8", "3", "6", "4", "7">>
    IN /\ digits # <<>>
       /\ \A i \in 1..Len(digits) : IsDigit(digits[i])
       /\ AtMost(WithoutLeadingZeros(digits), limit)

\* the schema declares Integer for the path, as a Single or in some slot of
\* a Collection
DeclaresInteger(path) ==
    LET node == SchemaNodeAt(schema, path) IN
    /\ node.some
    /\ node.v.tag = "Scalar"
    /\ IF node.v.payload.tag = "Single"
       THEN node.v.payload.v = "Integer"
       ELSE \E n \in 1..Len(node.v.payload.items) :
               node.v.payload.items[n] = "Integer"

\* the leaves declared Integer whose raw text is not an i32
BadIntegers ==
    { leaf \in Leaves : DeclaresInteger(leaf[1]) /\ ~IsI32Text(leaf[2][1]) }

FirstInKeyOrder(leaves) ==
    CHOOSE leaf \in leaves :
        \A o \in leaves : o = leaf \/ PathLess(leaf[1], o[1])

\* C10: when a leaf declared Integer holds a text that is not an i32, the
\* reconciliation fails with InvalidValue carrying the full dotted path, the
\* raw text, the type Integer and the line of such a leaf (of the first one
\* in key order when there are several).
C10_InvalidInteger ==
    pc # "lines" /\ ~BuildFailed /\ BadIntegers # {} =>
        LET leaf == FirstInKeyOrder(BadIntegers) IN
        result = Err(InvalidValue(Join(leaf[1]), leaf[2][1], "Integer",
                                  leaf[2][2]))

\* an out-of-range text in a nested Collection leaf was rejected on line 2
C10_Witness ==
    /\ result.tag = "Err"
    /\ result.err.kind = "InvalidValue"
    /\ result.err.key = <<"a", ".", "n">>
    /\ result.err.value = <<"2", "1", "4", "7", "4", "8", "3", "6", "4", "8">>
    /\ result.err.line = 2
    /\ SchemaNodeAt(schema, <<<<"a">>, <<"n">>>>).v.payload.tag = "Collection"

(***************************************************************************)
(* C11                                                                     *)
(***************************************************************************)
\* the kinds the schema declares for the leaf at a path, one per slot: a
\* Single has one slot
DeclaredKinds(path) ==
    LET declared == SchemaNodeAt(schema, path).v.payload IN
    IF declared.tag = "Single" THEN <<declared.v>> ELSE declared.items

\* the typed entries of the leaf at a path of the returned tree, one per slot
TypedEntries(path) ==
    LET typed == SchemaNodeAt(result.val, path).v.payload IN
    IF typed.tag = "Single" THEN <<typed.v>> ELSE typed.items

\* the text is the four characters `true`
IsTrue(text) ==
    /\ Len(text) = 4
    /\ text[1] = "t" /\ text[2] = "r" /\ text[3] = "u" /\ text[4] = "e"

\* C11: in a returned tree, a slot declared Bool holds true iff the raw text
\* of its leaf is exactly `true`, and false for every other text; no
\* InvalidValue of type Bool comes out of a configuration text.
C11_BoolLiteral ==
    /\ result.tag = "Ok" =>
          \A leaf \in Leaves :
              \A i \in 1..Len(DeclaredKinds(leaf[1])) :
                  DeclaredKinds(leaf[1])[i] = "Bool" =>
                      TypedEntries(leaf[1])[i] = BoolValue(IsTrue(leaf[2][1]))
    /\ result.tag = "Err" /\ result.err.kind = "InvalidValue" =>
          result.err.ty # "Bool"

\* a tree was returned with a Bool leaf that is true and a Bool leaf that is
\* false although its text is not `false`
C11_Witness ==
    /\ result.tag = "Ok"
    /\ \E yes \in Leaves, no \in Leaves :
          /\ DeclaredKinds(yes[1]) = <<"Bool">>
          /\ TypedEntries(yes[1]) = <<BoolValue(TRUE)>>
          /\ DeclaredKinds(no[1]) = <<"Bool">>
          /\ TypedEntries(no[1]) = <<BoolValue(FALSE)>>
          /\ no[2][1] # <<"f", "a", "l", "s", "e">>

(***************************************************************************)
(* C12                                                                     *)
(***************************************************************************)
\* the text is one decimal digit
IsOneDigit(text) == \E k \in 0..9 : text = <<Digits[k + 1]>>

\* the number a text of one digit denotes
NumberOf(text) == CHOOSE k \in 0..9 : text = <<Digits[k + 1]>>

\* the whole text read as one kind; a text that is no digit reads as no
\* integer
ReadAs(kind, text) ==
    CASE kind = "String" -> StringValue(text)
      [] kind = "Bool" -> BoolValue(IsTrue(text))
      [] kind = "Integer" ->
            IF IsOneDigit(text) THEN IntegerValue(NumberOf(text))
            ELSE [tag |-> "Integer"]

\* the leaves that the schema declares as collections
CollectionLeaves ==
    { leaf \in Leaves :
        SchemaNodeAt(schema, leaf[1]).v.payload.tag = "Collection" }

\* C12: in a returned tree, a leaf declared as a collection of N kinds holds
\* a Collection of exactly N entries, the i-th being the whole raw text of
\* the leaf read as the i-th declared kind.
C12_Replicated ==
    result.tag = "Ok" =>
        \A leaf \in CollectionLeaves :
            LET kinds == SchemaNodeAt(schema, leaf[1]).v.payload.items IN
            SchemaNodeAt(result.val, leaf[1]).v =
                Scalar(Collection([i \in 1..Len(kinds) |->
                                      ReadAs(kinds[i], leaf[2][1])]))

\* a tree was returned with a collection of three entries made from a text
\* that contains a comma, and a collection that holds an integer
C12_Witness ==
    /\ result.tag = "Ok"
    /\ \E leaf \in CollectionLeaves :
          /\ Len(TypedEntries(leaf[1])) = 3
          /\ \E p \in 1..Len(leaf[2][1]) : leaf[2][1][p] = ","
    /\ \E leaf \in CollectionLeaves :
          \E i \in 1..Len(TypedEntries(leaf[1])) :
              TypedEntries(leaf[1])[i].tag = "Integer"

(***************************************************************************)
(* C13                                                                     *)
(***************************************************************************)
\* a lookup was made, in a configuration tree or in a schema tree
LookedUp == pc \in {"queried", "schema_queried"}

\* C13: `get` on a tree built by parsing, configuration or schema, returns
\* what the descent by hand returns: the key is split at its dots and the
\* segments are followed from the root through nested maps; the result is
\* the node after the last segment, and nothing if a segment is missing or
\* a scalar is met before the last segment.
C13_GetIsDescent ==
    LookedUp =>
        query.v.value = SchemaNodeAt(result.val, Split(query.v.key, "."))

\* a lookup in a configuration tree found a node two segments deep
C13_Witness ==
    /\ pc = "queried"
    /\ Len(Split(query.v.key, ".")) = 2
    /\ query.v.value.some

\* a lookup in a schema tree met a scalar before the last segment
C13_WitnessSchema ==
    /\ pc = "schema_queried"
    /\ ~query.v.value.some
    /\ \E n \in 1..(Len(Split(query.v.key, ".")) - 1) :
          KindAt(result.val, SubSeq(Split(query.v.key, "."), 1, n)) = "Scalar"

\* a lookup in a configuration tree met a scalar before the last segment
C13_WitnessScalar ==
    /\ pc = "queried"
    /\ ~query.v.value.some
    /\ \E n \in 1..(Len(Split(query.v.key, ".")) - 1) :
          KindAt(result.val, SubSeq(Split(query.v.key, "."), 1, n)) = "Scalar"

(***************************************************************************)
(* C14                                                                     *)
(***************************************************************************)
\* the leaves of the returned tree, each as <<segments of its path, value>>
TypedLeaves == LeavesOf(result.val, <<>>)

\* the number of slots of a typed value or of a schema descriptor
Arity(value) == IF value.tag = "Single" THEN 1 ELSE Len(value.items)

\* C14: a returned configuration tree has exactly the key paths of the
\* untyped tree, a map where that has a map and a leaf where that has a
\* scalar; each leaf is a Single or a Collection as the schema declares its
\* path, with the declared number of entries.
C14_SameShape ==
    result.tag = "Ok" =>
        /\ { leaf[1] : leaf \in TypedLeaves } = { leaf[1] : leaf \in Leaves }
        /\ \A path \in TreePaths :
              KindAt(result.val, path) = KindAt(root, path)
        /\ \A leaf \in TypedLeaves :
              LET declared == SchemaNodeAt(schema, leaf[1]) IN
              /\ declared.some
              /\ declared.v.tag = "Scalar"
              /\ leaf[2].tag = declared.v.payload.tag
              /\ Arity(leaf[2]) = Arity(declared.v.payload)

\* a tree was returned with a map that holds a Single leaf and a Collection
\* leaf of two entries
C14_Witness ==
    /\ result.tag = "Ok"
    /\ \E one \in TypedLeaves, many \in TypedLeaves :
          /\ Len(one[1]) = 2
          /\ Len(many[1]) = 2
          /\ one[1][1] = many[1][1]
          /\ one[2].tag = "Single"
          /\ many[2].tag = "Collection"
          /\ Arity(many[2]) = 2

(***************************************************************************)
(* C15                                                                     *)
(***************************************************************************)
\* the positions of the commas of a text, with 0 before them and the length
\* plus one after them
Cuts(text) ==
    LET commas == { p \in 1..Len(text) : text[p] = "," } IN
    [ i \in 1..(Cardinality(commas) + 2) |->
        IF i = 1 THEN 0
        ELSE IF i = Cardinality(commas) + 2 THEN Len(text) + 1
        ELSE CHOOSE p \in commas :
                Cardinality({ q \in commas : q < p }) = i - 2 ]

\* the i-th comma-separated piece of a text, trimmed
Piece(text, i) ==
    Trim(SubSeq(text, Cuts(text)[i] + 1, Cuts(text)[i + 1] - 1))

\* the kind a type name names; "" if it names none
KindNamed(name) ==
    CASE name = <<"S", "t", "r", "i", "n", "g">> -> "String"
      [] name = <<"B", "o", "o", "l">> -> "Bool"
      [] name = <<"I", "n", "t", "e", "g", "e", "r">> -> "Integer"
      [] OTHER -> ""

\* the descriptor a schema value declares
Descriptor(text) ==
    IF Len(Cuts(text)) > 2
    THEN Collection([i \in 1..(Len(Cuts(text)) - 1) |->
                        KindNamed(Piece(text, i))])
    ELSE Single(KindNamed(text))

\* the schema compiler has returned
Compiled == pc \in {"schema_done", "schema_queried"}

\* C15: in a returned schema tree, a leaf whose value contains a comma is a
\* Collection with one kind per comma-separated piece, each piece trimmed,
\* in the order of the text and with duplicates kept; a leaf whose value
\* contains no comma is a Single of the kind its whole value names; the maps
\* have the keys of the untyped tree.
C15_Compiled ==
    Compiled /\ result.tag = "Ok" =>
        /\ { leaf[1] : leaf \in TypedLeaves } = { leaf[1] : leaf \in Leaves }
        /\ \A path \in TreePaths :
              KindAt(result.val, path) = KindAt(root, path)
        /\ \A leaf \in Leaves :
              SchemaNodeAt(result.val, leaf[1]).v
                  = Scalar(Descriptor(leaf[2][1]))

\* a schema tree was returned with a collection that names a kind twice and
\* a collection whose pieces had blanks around them
C15_Witness ==
    /\ Compiled
    /\ result.tag = "Ok"
    /\ \E leaf \in TypedLeaves :
          /\ leaf[2].tag = "Collection"
          /\ leaf[2].items[1] = leaf[2].items[2]
    /\ \E leaf \in Leaves :
          /\ SchemaNodeAt(result.val, leaf[1]).v.payload.tag = "Collection"
          /\ \E p \in 1..Len(leaf[2][1]) : leaf[2][1][p] = " "
    /\ \E leaf \in TypedLeaves : leaf[2].tag = "Single" /\ Len(leaf[1]) > 1

(***************************************************************************)
(* C16                                                                     *)
(***************************************************************************)
\* the leaves whose value names something that is not a kind, as a whole or
\* in one of its pieces
BadlyTyped ==
    { leaf \in Leaves :
        LET declared == Descriptor(leaf[2][1]) IN
        IF declared.tag = "Single" THEN declared.v = ""
        ELSE \E i \in 1..Len(declared.items) : declared.items[i] = "" }

\* C16: when the schema text builds a tree, schema::parse_str fails iff some
\* leaf names, as a whole or in a comma-separated piece, something other
\* than String, Bool or Integer, and the error is then InvalidValue with
\* the empty key, the empty value, the type Bool and the line 0.
C16_Placeholder ==
    Compiled /\ ~BuildFailed =>
        IF BadlyTyped # {}
        THEN result = Err(InvalidValue(<<>>, <<>>, "Bool", 0))
        ELSE result.tag = "Ok"

\* the compiler failed on a schema whose only bad leaf is on line 2 or
\* later and names a kind in lower case
C16_Witness ==
    /\ Compiled
    /\ result = Err(InvalidValue(<<>>, <<>>, "Bool", 0))
    /\ \E leaf \in BadlyTyped :
          /\ leaf[2][2] > 1
          /\ leaf[2][1] = <<"s", "t", "r", "i", "n", "g">>
    /\ Leaves \ BadlyTyped # {}

(***************************************************************************)
(* C17                                                                     *)
(***************************************************************************)
\* the line is blank, or its first character that is not whitespace is `#`
\* or `;`
BlankOrComment(line) ==
    \/ \A p \in 1..Len(line) : IsWhitespace(line[p])
    \/ \E p \in 1..Len(line) :
          /\ line[p] \in {"#", ";"}
          /\ \A q \in 1..(p - 1) : IsWhitespace(line[q])

\* the key paths assigned by the lines of the text that were consumed
\* without an error and are neither blank nor comments
KeysOfContentLines ==
    { SegmentsOf(KeyText(input[j])) :
        j \in { i \in 1..Accepted : ~BlankOrComment(input[i]) } }

\* C17: a blank line or a comment line adds no key and raises no error, and
\* it is counted: a leaf carries the number of the physical line that
\* assigned it, an error of the builder the number of the physical line it
\* was raised on.
C17_Skipped ==
    /\ { leaf[1] : leaf \in Leaves } = KeysOfContentLines
    /\ \A leaf \in Leaves :
          /\ leaf[2][2] \in 1..Accepted
          /\ ~BlankOrComment(input[leaf[2][2]])
          /\ SegmentsOf(KeyText(input[leaf[2][2]])) = leaf[1]
    /\ BuildFailed =>
          /\ ~BlankOrComment(input[idx])
          /\ result.err.line = idx
    /\ pc = "lines" /\ idx > 0 /\ BlankOrComment(input[idx]) =>
          result = Pending

\* a leaf was assigned on line 2, after a comment line that starts with `;`
\* and would assign a key if it were read
C17_Witness ==
    /\ Len(input) = 2
    /\ BlankOrComment(input[1])
    /\ \E p \in 1..Len(input[1]) : input[1][p] = "="
    /\ \E leaf \in Leaves : leaf[2][2] = 2

\* the builder failed on line 2, after a blank line
C17_WitnessError ==
    /\ BuildFailed
    /\ idx = 2
    /\ \A p \in 1..Len(input[1]) : IsWhitespace(input[1][p])

(***************************************************************************)
(* C18                                                                     *)
(***************************************************************************)
\* the text holds `#` or `;`
HasCommentMark(text) == \E p \in 1..Len(text) : text[p] \in {"#", ";"}

\* C18: the value of a line is what its value text holds before the first
\* `#` or `;`, whichever comes first, with nothing of the rest; a line whose
\* value is empty there, once trimmed, fails with EmptyValue and its line
\* number.
C18_InlineComment ==
    /\ \A leaf \in Leaves :
          /\ leaf[2][1]
                = Collapsed(Stripped(ValueText(input[leaf[2][2]])))
          /\ ~HasCommentMark(leaf[2][1])
    /\ \A j \in 1..Len(input) :
          Reached(j) /\ IsAssignment(j) /\ ValidKey(KeyText(input[j])) =>
              (Stripped(ValueText(input[j])) = <<>>
                  <=> result = Err(EmptyValue(j)))

\* line 1 gave a leaf from a value text that holds `;` and then `#`, and
\* line 2 failed with EmptyValue
C18_Witness ==
    /\ result = Err(EmptyValue(2))
    /\ \E leaf \in Leaves :
          LET value == ValueText(input[leaf[2][2]]) IN
          \E p \in 1..Len(value) :
              /\ value[p] = ";"
              /\ \E q \in (p + 1)..Len(value) : value[q] = "#"
              /\ Len(leaf[2][1]) < p

\* a leaf came from a value text that holds `#` and then `;`
C18_WitnessHash ==
    \E leaf \in Leaves :
        LET value == ValueText(input[leaf[2][2]]) IN
        \E p \in 1..Len(value) :
            /\ value[p] = "#"
            /\ \E q \in (p + 1)..Len(value) : value[q] = ";"
            /\ Len(leaf[2][1]) < p

(***************************************************************************)
(* C19                                                                     *)
(***************************************************************************)
\* the lines that were printed; nothing is printed for a tree without leaf
OutputLines ==
    IF query.v.output = <<>> THEN <<>> ELSE Split(query.v.output, "\n")

\* the full dotted path of a printed line: what precedes its first " = "
PathOfLine(line) == SubSeq(line, 1, Find(line, <<" ", "=", " ">>) - 1)

\* every leaf of the returned tree has its line `full.dotted.path = value`,
\* and there is no other line
OneLinePerLeaf ==
    /\ Len(OutputLines) = Cardinality(TypedLeaves)
    /\ \A leaf \in TypedLeaves :
          \E n \in 1..Len(OutputLines) :
              OutputLines[n] = Join(leaf[1]) \o <<" ", "=", " ">>
                                   \o render_scalar(leaf[2])

\* C19 as stated: one line `full.dotted.path = value` per leaf, the lines in
\* ascending lexicographic order of their full dotted paths.
C19_AsStated ==
    pc = "shown" =>
        /\ OneLinePerLeaf
        /\ \A m \in 1..Len(OutputLines), n \in 1..Len(OutputLines) :
              m < n => StrLess(PathOfLine(OutputLines[m]),
                               PathOfLine(OutputLines[n]))

\* C19: one line `full.dotted.path = value` per leaf, the lines in
\* depth-first key order: of two lines, the earlier has the smaller segment
\* at the first segment where their paths differ.
C19_KeyOrder ==
    pc = "shown" =>
        /\ OneLinePerLeaf
        /\ \A m \in 1..Len(OutputLines), n \in 1..Len(OutputLines) :
              m < n => PathLess(Split(PathOfLine(OutputLines[m]), "."),
                                Split(PathOfLine(OutputLines[n]), "."))

\* three lines were printed, one of them with a collection, and the line of
\* `a.b` comes before the line of `a-b`
C19_Witness ==
    /\ pc = "shown"
    /\ Len(OutputLines) = 3
    /\ \E leaf \in TypedLeaves : leaf[2].tag = "Collection"
    /\ \E m \in 1..3, n \in 1..3 :
          /\ m < n
          /\ PathOfLine(OutputLines[m]) = <<"a", ".", "b">>
          /\ PathOfLine(OutputLines[n]) = <<"a", "-", "b">>

(***************************************************************************)
(* C20                                                                     *)
(***************************************************************************)
\* the path of the first leaf at or below a path, in depth-first key order:
\* where the descent by first child keys ends
FirstLeafUnder(path) ==
    (CHOOSE leaf \in LeavesUnder(path) :
        \A other \in LeavesUnder(path) :
            other = leaf \/ PathLess(leaf[1], other[1]))[1]

\* C20: the key of an UnknownKey is the bare top-level key when the
\* unmatched key is at the top level and the schema is not empty, also for
\* a subtree; otherwise it is the dotted path of the unmatched key, extended
\* by first child keys down to a scalar.  The lines are those of every leaf
\* of the unmatched subtree.
C20_ReportedKey ==
    result.tag = "Err" /\ result.err.kind = "UnknownKey" =>
        \E path \in TreePaths :
            /\ Unmatched(path)
            /\ result.err.lines = LinesInKeyOrder(LeavesUnder(path))
            /\ result.err.key =
                  IF Len(path) = 1 /\ schema # EmptyMap THEN path[1]
                  ELSE Join(FirstLeafUnder(path))

\* an UnknownKey for a nested subtree: the key is the path of the subtree
\* extended by a child key
C20_Witness ==
    /\ result.tag = "Err"
    /\ result.err.kind = "UnknownKey"
    /\ \E path \in TreePaths :
          /\ Unmatched(path)
          /\ Len(path) = 2
          /\ KindAt(root, path) = "Map"
          /\ result.err.key = Join(FirstLeafUnder(path))
          /\ result.err.key # Join(path)

\* an UnknownKey for a subtree at the top level of a schema that is not
\* empty: the key is the bare key
C20_WitnessTop ==
    /\ result.tag = "Err"
    /\ result.err.kind = "UnknownKey"
    /\ schema # EmptyMap
    /\ \E path \in TreePaths :
          /\ Unmatched(path)
          /\ Len(path) = 1
          /\ KindAt(root, path) = "Map"
          /\ result.err.key = path[1]

\* an UnknownKey for a subtree at the top level of the empty schema: the
\* key is extended down to a scalar
C20_WitnessEmpty ==
    /\ result.tag = "Err"
    /\ result.err.kind = "UnknownKey"
    /\ schema = EmptyMap
    /\ Len(Split(result.err.key, ".")) = 3

(***************************************************************************)
(* Vocabulary of the properties of both parsers                            *)
(***************************************************************************)
\* the text is a schema text
SchemaMode == pc \in {"schema_lines", "schema_done", "schema_queried"}

\* the delimiter of the text: `=` in a configuration, `->` in a schema
Delimiter == IF SchemaMode THEN <<"-", ">">> ELSE <<"=">>

\* the delimiter stands at position p of the line
OccursAt(line, p) ==
    \A k \in 1..Len(Delimiter) :
        p + k - 1 <= Len(line) /\ line[p + k - 1] = Delimiter[k]

HasDelimiter(line) == \E p \in 1..Len(line) : OccursAt(line, p)

FirstDelimiter(line) ==
    CHOOSE p \in 1..Len(line) :
        OccursAt(line, p) /\ \A q \in 1..(p - 1) : ~OccursAt(line, q)

\* everything before the first delimiter, everything after it
KeyPart(line) == SubSeq(line, 1, FirstDelimiter(line) - 1)

ValuePart(line) ==
    SubSeq(line, FirstDelimiter(line) + Len(Delimiter), Len(line))

\* position i of a key text holds a character of a segment: a character
\* that is not whitespace, or whitespace that has characters of the same
\* segment on both sides
InSegment(key, i) ==
    IF ~IsWhitespace(key[i]) THEN key[i] # "."
    ELSE LET left == { p \in 1..(i - 1) : ~IsWhitespace(key[p]) }
             right == { p \in (i + 1)..Len(key) : ~IsWhitespace(key[p]) }
         IN /\ left # {}
            /\ right # {}
            /\ key[CHOOSE p \in left : \A q \in left : q <= p] # "."
            /\ key[CHOOSE p \in right : \A q \in right : p <= q] # "."

\* a key text without the whitespace at its ends and around its dots
RECURSIVE SqueezedFrom(_, _)
SqueezedFrom(key, i) ==
    IF i > Len(key) THEN <<>>
    ELSE IF InSegment(key, i) \/ key[i] = "."
         THEN <<key[i]>> \o SqueezedFrom(key, i + 1)
         ELSE SqueezedFrom(key, i + 1)

Squeezed(key) == SqueezedFrom(key, 1)

\* the line that was consumed last was an assignment and was accepted
Consumed == idx > 0 /\ ~BuildFailed /\ ~BlankOrComment(input[idx])

(***************************************************************************)
(* C21                                                                     *)
(***************************************************************************)
\* C21: every value of the untyped tree is the value text of its line
\* without the comment, trimmed, each run of whitespace replaced by one
\* space: it neither starts nor ends with whitespace, holds no two adjacent
\* spaces and no whitespace other than the space, and normalising it again
\* returns it unchanged.
C21_Normalised ==
    \A leaf \in Leaves :
        LET v == leaf[2][1] IN
        /\ v # <<>>
        /\ ~IsWhitespace(v[1])
        /\ ~IsWhitespace(v[Len(v)])
        /\ \A p \in 1..Len(v) : IsWhitespace(v[p]) => v[p] = " "
        /\ \A p \in 1..(Len(v) - 1) : ~(v[p] = " " /\ v[p + 1] = " ")
        /\ v = Collapsed(Stripped(ValuePart(input[leaf[2][2]])))
        /\ parse_value(v, leaf[2][2]) = Ok(v)

\* a value with one space came from a value text with a run of three
\* whitespace characters that holds a tab
C21_Witness ==
    \E leaf \in Leaves :
        LET text == ValuePart(input[leaf[2][2]]) IN
        /\ \E p \in 1..Len(leaf[2][1]) : leaf[2][1][p] = " "
        /\ \E p \in 2..(Len(text) - 3) :
              /\ ~IsWhitespace(text[p - 1])
              /\ text[p] = "\t" /\ text[p + 1] = " " /\ text[p + 2] = " "
              /\ ~IsWhitespace(text[p + 3])

(***************************************************************************)
(* C22                                                                     *)
(***************************************************************************)
\* C22: a line is split at the first occurrence of the delimiter of its
\* text: the key is what stands before it, the value what stands after it,
\* later occurrences of the delimiter included; a line is refused with
\* MissingDelimiter iff the delimiter does not occur in it.
C22_FirstDelimiter ==
    /\ \A leaf \in Leaves :
          LET line == input[leaf[2][2]] IN
          /\ HasDelimiter(line)
          /\ Join(leaf[1]) = Squeezed(KeyPart(line))
          /\ leaf[2][1] = Collapsed(Stripped(ValuePart(line)))
    /\ Consumed => \E leaf \in Leaves : leaf[2][2] = idx
    /\ \A j \in 1..Len(input) :
          Reached(j) /\ ~BlankOrComment(input[j]) =>
              (~HasDelimiter(input[j]) <=> result = Err(MissingDelimiter(j)))

\* a configuration value holds a second `=`
C22_Witness ==
    /\ ~SchemaMode
    /\ \E leaf \in Leaves :
          \E p \in 1..Len(leaf[2][1]) : leaf[2][1][p] = "="

\* a schema value holds a second `->`, after a key that holds `=`
C22_WitnessSchema ==
    /\ SchemaMode
    /\ \E leaf \in Leaves : HasDelimiter(leaf[2][1])
    /\ \E leaf \in Leaves :
          \E p \in 1..Len(leaf[1][1]) : leaf[1][1][p] = "="

(***************************************************************************)
(* C23                                                                     *)
(***************************************************************************)
\* C23: the path of a leaf is made of the segments of the key part of its
\* line, in the order of the text: at least one, each non-empty, without
\* whitespace at its ends and without a dot; whitespace around the dots
\* and at the ends of the key part does not change the path.
C23_Segments ==
    /\ \A leaf \in Leaves :
          /\ Len(leaf[1]) >= 1
          /\ \A i \in 1..Len(leaf[1]) :
                LET segment == leaf[1][i] IN
                /\ segment # <<>>
                /\ ~IsWhitespace(segment[1])
                /\ ~IsWhitespace(segment[Len(segment)])
                /\ \A p \in 1..Len(segment) : segment[p] # "."
          /\ Join(leaf[1]) = Squeezed(KeyPart(input[leaf[2][2]]))
    /\ Consumed =>
          \E leaf \in Leaves :
              /\ leaf[2][2] = idx
              /\ Join(leaf[1]) = Squeezed(KeyPart(input[idx]))

\* two lines whose key parts differ in whitespace assigned the same leaf,
\* and a leaf has a segment with a blank inside
C23_Witness ==
    /\ Consumed
    /\ idx = 3
    /\ HasDelimiter(input[1])
    /\ HasDelimiter(input[2])
    /\ Trim(KeyPart(input[1])) # Trim(KeyPart(input[2]))
    /\ Squeezed(KeyPart(input[1])) = Squeezed(KeyPart(input[2]))
    /\ \E leaf \in Leaves : leaf[2][2] = 2 /\ Len(leaf[1]) = 2
    /\ \E leaf \in Leaves :
          \E p \in 1..Len(leaf[1][1]) : leaf[1][1][p] = " "

(***************************************************************************)
(* C24                                                                     *)
(***************************************************************************)
\* line j is a well-formed line of its text: a delimiter, a valid key and a
\* value that is not empty
IsDeclaration(j) ==
    /\ ~BlankOrComment(input[j])
    /\ HasDelimiter(input[j])
    /\ ValidKey(KeyPart(input[j]))
    /\ Stripped(ValuePart(input[j])) # <<>>

\* the path line j declares
DeclaredPath(j) == SegmentsOf(KeyPart(input[j]))

\* the lines among the first n that declare the path `segments`
DeclarationsOf(segments, n) ==
    { j \in 1..n : IsDeclaration(j) /\ DeclaredPath(j) = segments }

\* the paths declared by the lines before line j
DeclaredBefore(j) ==
    { DeclaredPath(i) : i \in { i \in 1..(j - 1) : IsDeclaration(i) } }

C24_WitnessBelow ==
    /\ SchemaMode
    /\ idx > 1
    /\ IsDeclaration(idx)
    /\ result = Err(ConflictingTypes(<<"a">>, idx))
    /\ DeclaredPath(idx) = <<<<"a">>, <<"b">>>>
    /\ <<<<"a">>>> \in DeclaredBefore(idx)

\* `a` was declared after `a.b`
C24_WitnessAbove ==
    /\ SchemaMode
    /\ idx > 1
    /\ IsDeclaration(idx)
    /\ result = Err(ConflictingTypes(<<"a">>, idx))
    /\ DeclaredPath(idx) = <<<<"a">>>>
    /\ <<<<"a">>, <<"b">>>> \in DeclaredBefore(idx)

(***************************************************************************)
(* C25                                                                     *)
(***************************************************************************)
\* the shape of a tree: its keys and the kind of every node
RECURSIVE ShapeOf(_)
ShapeOf(children) ==
    [k \in DOMAIN children |->
        IF children[k].tag = "Scalar" THEN [tag |-> "Scalar"]
        ELSE [tag |-> "Map", children |-> ShapeOf(children[k].children)]]

\* both parsers have gone through the text
Compared == pc = "compared"

\* C25: the parser of lib.rs and the tree builder of the typed pipeline
\* with `=` accept the same texts, fail with the same error (kind, key,
\* segment, line) and build trees of the same shape; a leaf of lib.rs is
\* the trimmed, comment-stripped value text verbatim, without a line
\* number, and the leaf of the tree builder is that text with its
\* whitespace runs collapsed.
C25_SameAsLegacy ==
    Compared =>
        LET legacy == query.v.legacy IN
        IF BuildFailed THEN legacy = result
        ELSE /\ legacy.tag = "Ok"
             /\ ShapeOf(legacy.val) = ShapeOf(root)
             /\ \A leaf \in Leaves :
                   \E old \in LeavesOf(legacy.val, <<>>) :
                       /\ old[1] = leaf[1]
                       /\ old[2] = Stripped(ValueText(input[leaf[2][2]]))
                       /\ leaf[2][1] = Collapsed(old[2])

\* both parsers built a tree with a nested leaf whose value differs: lib.rs
\* kept a tab and two blanks where the tree builder has one blank
C25_Witness ==
    /\ Compared
    /\ ~BuildFailed
    /\ query.v.legacy.tag = "Ok"
    /\ \E leaf \in Leaves :
          \E old \in LeavesOf(query.v.legacy.val, <<>>) :
              /\ old[1] = leaf[1]
              /\ Len(leaf[1]) = 2
              /\ Len(old[2]) = Len(leaf[2][1]) + 2
              /\ \E p \in 1..Len(old[2]) : old[2][p] = "\t"

\* both parsers refused the third line of a text with ConflictingTypes
C25_WitnessError ==
    /\ Compared
    /\ BuildFailed
    /\ result.err.kind = "ConflictingTypes"
    /\ result.err.line = 3
    /\ query.v.legacy = result

(***************************************************************************)
(* C26                                                                     *)
(***************************************************************************)
\* the schema has an entry of the other kind at a path of the tree
Mismatched(path) ==
    /\ path \in TreePaths
    /\ SchemaNodeAt(schema, path).some
    /\ SchemaNodeAt(schema, path).v.tag # KindAt(root, path)

\* the paths of the tree the reconciliation cannot convert: no entry in the
\* schema, an entry of the other kind, or a text that is not of the
\* declared kind
Failing ==
    { path \in TreePaths :
        \/ Unmatched(path)
        \/ Mismatched(path)
        \/ \E leaf \in BadIntegers : leaf[1] = path }

FirstFailing ==
    CHOOSE path \in Failing :
        \A other \in Failing : other = path \/ PathLess(path, other)

\* the reconciliation has returned
Reconciled == pc # "lines" /\ ~BuildFailed

\* the least line of the leaves at or below a path
EarliestLine(path) ==
    CHOOSE l \in { leaf[2][2] : leaf \in LeavesUnder(path) } :
        \A leaf \in LeavesUnder(path) : l <= leaf[2][2]

\* C26: when the reconciliation returns an error, it is the error of the
\* first failing key in depth-first key order of the untyped tree, on
\* whatever lines the failing keys stand; and it returns that error
\* whenever the first failing key is an unknown key or an invalid value.
C26_FirstFailingKey ==
    Reconciled =>
        /\ result.tag = "Err" => Failing # {} /\ ~Mismatched(FirstFailing)
        /\ Failing # {} /\ ~Mismatched(FirstFailing) =>
              IF Unmatched(FirstFailing)
              THEN /\ result.tag = "Err"
                   /\ result.err.kind = "UnknownKey"
                   /\ result.err.lines
                         = LinesInKeyOrder(LeavesUnder(FirstFailing))
              ELSE LET leaf == CHOOSE leaf \in Leaves : leaf[1] = FirstFailing
                   IN result = Err(InvalidValue(Join(leaf[1]), leaf[2][1],
                                                "Integer", leaf[2][2]))

\* an unknown key was reported although an invalid value stands on an
\* earlier line
C26_Witness ==
    /\ Reconciled
    /\ result.tag = "Err"
    /\ result.err.kind = "UnknownKey"
    /\ \E leaf \in BadIntegers :
          leaf[2][2] < EarliestLine(FirstFailing)

\* an invalid value was reported although an unknown key stands on an
\* earlier line
C26_WitnessInvalid ==
    /\ Reconciled
    /\ result.tag = "Err"
    /\ result.err.kind = "InvalidValue"
    /\ \E path \in Failing :
          Unmatched(path) /\ EarliestLine(path) < result.err.line

(***************************************************************************)
(* C27                                                                     *)
(***************************************************************************)
\* the lines of the text that fail in the tree builder
FailingLines == { j \in 1..Len(input) : Failure(j) # NoError }

\* C27: conf::parse_str returns UnknownKey or InvalidValue only after every
\* line of the text was tokenized and inserted without error; when some
\* line fails in the tree builder, the call returns the error of the first
\* such line, whatever unknown key or invalid value stands before it.
C27_BuildErrorFirst ==
    /\ result.tag = "Err" /\ result.err.kind \in {"UnknownKey", "InvalidValue"}
          => /\ idx = Len(input)
             /\ FailingLines = {}
    /\ pc = "done" /\ FailingLines # {}
          => LET first == CHOOSE j \in FailingLines :
                             \A k \in FailingLines : j <= k
             IN /\ result = Err(Failure(first))
                /\ idx = first

\* the call returned the tree-building error of a line that follows the
\* line of an unknown key and the line of an invalid value
C27_Witness ==
    /\ BuildFailed
    /\ \E path \in Failing :
          Unmatched(path) /\ EarliestLine(path) < idx
    /\ \E leaf \in BadIntegers : leaf[2][2] < idx

(***************************************************************************)
(* C30                                                                     *)
(***************************************************************************)
\* the paths the schema declares a leaf for
RECURSIVE SchemaLeafPaths(_, _)
SchemaLeafPaths(children, path) ==
    UNION { IF children[k].tag = "Scalar"
            THEN { Append(path, k) }
            ELSE SchemaLeafPaths(children[k].children, Append(path, k))
          : k \in DOMAIN children }

\* the leaves the schema declares and the text does not assign
Unassigned ==
    SchemaLeafPaths(schema, <<>>) \ { leaf[1] : leaf \in Leaves }

\* C30: the reconciliation checks the keys of the configuration only: it
\* returns a tree whenever no key of the text fails, whatever the schema
\* declares besides; the tree has the leaves of the text and no other; an
\* error names a key of the text; a text of blank and comment lines gives
\* the empty tree under every schema.
C30_OnlyAssignedKeys ==
    Reconciled =>
        /\ Failing = {} => result.tag = "Ok"
        /\ result.tag = "Ok" =>
              /\ { leaf[1] : leaf \in TypedLeaves }
                    = { leaf[1] : leaf \in Leaves }
              /\ \A path \in Unassigned :
                    KindAt(result.val, path) = "absent"
        /\ result.tag = "Err" =>
              \E leaf \in Leaves :
                  IF result.err.kind = "UnknownKey"
                  THEN \E n \in 1..Len(result.err.lines) :
                          result.err.lines[n] = leaf[2][2]
                  ELSE /\ result.err.key = Join(leaf[1])
                       /\ result.err.line = leaf[2][2]
        /\ (\A j \in 1..Len(input) : BlankOrComment(input[j]))
              => result = Ok(EmptyMap)

\* a tree was returned for a text that assigns a nested and a top-level key
\* under a schema that declares a nested and a top-level leaf besides
C30_Witness ==
    /\ Reconciled
    /\ result.tag = "Ok"
    /\ \E leaf \in TypedLeaves : Len(leaf[1]) = 2
    /\ \E leaf \in TypedLeaves : Len(leaf[1]) = 1
    /\ \E path \in Unassigned : Len(path) = 2 /\ <<path[1]>> \in TreePaths
    /\ \E path \in Unassigned : Len(path) = 1

\* a text of a blank and a comment line gave the empty tree under a schema
\* that declares leaves
C30_WitnessEmpty ==
    /\ Reconciled
    /\ Len(input) = 2
    /\ \A j \in 1..Len(input) : BlankOrComment(input[j])
    /\ input[1] # input[2]
    /\ schema # EmptyMap
    /\ result = Ok(EmptyMap)

(***************************************************************************)
(* C28                                                                     *)
(***************************************************************************)
\* C28: the step of the tree builder that fails with ConflictingTypes
\* leaves the tree as it was before the step: no map is created and no
\* leaf is changed.
C28_FailedInsertKeepsTree ==
    [][result.tag = "Pending" /\ result'.tag = "Err"
           /\ result'.err.kind = "ConflictingTypes"
       => root' = root]_vars

\* a key of three segments was refused below a scalar, and a key of one
\* segment above a map, in a tree that holds leaves of earlier lines only
C28_Witness ==
    /\ BuildFailed
    /\ result.err.kind = "ConflictingTypes"
    /\ Leaves # {}
    /\ \A leaf \in Leaves : leaf[2][2] < idx
    /\ Len(DeclaredPath(idx)) = 3
    /\ KindAt(root, SubSeq(DeclaredPath(idx), 1, 2)) = "Scalar"

C28_WitnessAbove ==
    /\ BuildFailed
    /\ result.err.kind = "ConflictingTypes"
    /\ \A leaf \in Leaves : leaf[2][2] < idx
    /\ Len(DeclaredPath(idx)) = 1
    /\ KindAt(root, DeclaredPath(idx)) = "Map"

(***************************************************************************)
(* C29                                                                     *)
(***************************************************************************)
\* every node of a tree with its path
RECURSIVE NodesOf(_, _)
NodesOf(children, path) ==
    UNION { { <<Append(path, k), children[k]>> }
            \cup (IF children[k].tag = "Map"
                  THEN NodesOf(children[k].children, Append(path, k))
                  ELSE {})
          : k \in DOMAIN children }

\* C29: in every state of the tree builder no map below the root is empty:
\* every map has a scalar leaf below it, the descent by first child keys
\* that names an unknown key ends at a scalar, and the line list of every
\* subtree is not empty.
C29_NoEmptyMap ==
    \A node \in NodesOf(root, <<>>) :
        /\ node[2].tag = "Map" => DOMAIN node[2].children # {}
        /\ LeavesUnder(node[1]) # {}
        /\ get_lines_of_key(node[2]) # <<>>
        /\ KindAt(root, Split(format_unknown_key_path(Join(node[1]), node[2]),
                              ".")) = "Scalar"

\* the tree holds a map, and the builder has refused the empty value of a
\* line whose key names a map that is not in the tree
C29_Witness ==
    /\ \E node \in NodesOf(root, <<>>) : node[2].tag = "Map"
    /\ BuildFailed
    /\ result.err.kind = "EmptyValue"
    /\ Len(DeclaredPath(idx)) = 2
    /\ DeclaredPath(idx)[1] \notin DOMAIN root

\* the tree holds a map in a map
C29_WitnessDeep ==
    \E node \in NodesOf(root, <<>>) :
        Len(node[1]) = 2 /\ node[2].tag = "Map"
====
